---- MODULE Spec2Model ----
(***************************************************************************)
(* Model of the Toast order-aggregation pipeline: the date normaliser, the *)
(* response shape extractor, the check/order aggregators and the GET       *)
(* handlers of the four orders endpoints (totals, totals-by-checks,        *)
(* checks, bulk), each handler split into steps at its awaits.             *)
(*                                                                         *)
(* JSON values are tagged records; every JavaScript number is counted in   *)
(* hundredths, so the JSON number 25.50 is Num(2550) and 2 is Num(200).    *)
(***************************************************************************)
EXTENDS Integers, Sequences, FiniteSets, TLC

(***************************************************************************)
(* JavaScript values as they come out of JSON.parse and property access.   *)
(***************************************************************************)
Undef == [k |-> "undefined"]
Null == [k |-> "null"]
NaN == [k |-> "NaN"]
Infinity == [k |-> "Infinity"]
Num(n) == [k |-> "number", n |-> n]
Str(s) == [k |-> "string", s |-> s]
Bool(b) == [k |-> "boolean", b |-> b]
\* a string held as its characters (the timestamps)
Text(c) == [k |-> "text", c |-> c]
Arr(a) == [k |-> "array", a |-> a]
Obj(o) == [k |-> "object", o |-> o]

\* typeof x
TypeOf(x) ==
  CASE x.k = "undefined" -> "undefined"
    [] x.k \in {"number", "NaN", "Infinity"} -> "number"
    [] x.k \in {"string", "text"} -> "string"
    [] x.k = "boolean" -> "boolean"
    [] OTHER -> "object"

\* Array.isArray(x)
IsArray(x) == x.k = "array"

\* Number.isFinite(x)
IsFinite(x) == x.k = "number"

\* x coerced to a boolean, as in !x and x && ...
Truthy(x) ==
  CASE x.k \in {"undefined", "null", "NaN"} -> FALSE
    [] x.k = "number" -> x.n # 0
    [] x.k = "string" -> x.s # ""
    [] x.k = "text" -> x.c # <<>>
    [] x.k = "boolean" -> x.b
    [] OTHER -> TRUE

\* x.name and x?.name: undefined unless x is an object that has the field
Get(x, name) ==
  IF x.k = "object" /\ name \in DOMAIN x.o THEN x.o[name] ELSE Undef

\* x ?? y
Coalesce(x, y) == IF x.k \in {"undefined", "null"} THEN y ELSE x

\* Number(s) for the strings the model uses (hundredths)
StringToNumber(s) ==
  CASE s = "" -> Num(0)
    [] s = "0" -> Num(0)
    [] s = "1" -> Num(100)
    [] s = "2" -> Num(200)
    [] s = "3" -> Num(300)
    [] s = "2.5" -> Num(250)
    [] s = "-1" -> Num(-100)
    [] s = "50" -> Num(5000)
    [] s = "100" -> Num(10000)
    [] s = "25.50" -> Num(2550)
    [] s = "20260109" -> Num(2026010900)
    [] OTHER -> NaN

\* Number(x)
RECURSIVE ToNumber(_)
ToNumber(x) ==
  CASE x.k \in {"number", "NaN", "Infinity"} -> x
    [] x.k = "undefined" -> NaN
    [] x.k = "null" -> Num(0)
    [] x.k = "boolean" -> IF x.b THEN Num(100) ELSE Num(0)
    [] x.k = "string" -> StringToNumber(x.s)
    [] x.k = "array" ->
         IF Len(x.a) = 0 THEN Num(0)
         ELSE IF Len(x.a) = 1 /\ x.a[1].k \in {"number", "string"} THEN ToNumber(x.a[1])
         ELSE IF Len(x.a) = 1 /\ x.a[1].k \in {"undefined", "null"} THEN Num(0)
         ELSE NaN
    [] OTHER -> NaN

\* typeof x === "number" ? x : Number(x ?? 0)
CoerceAmount(x) ==
  IF TypeOf(x) = "number" THEN x ELSE ToNumber(Coalesce(x, Num(0)))

\* Number.isFinite(x) ? x : 0, as a count of hundredths
FiniteOrZero(x) == IF IsFinite(x) THEN x.n ELSE 0

Min(a, b) == IF a <= b THEN a ELSE b

(***************************************************************************)
(* Date Normalizer.  A timestamp is a sequence of one-character strings.   *)
(***************************************************************************)
Digits == {"0", "1", "2", "3", "4", "5", "6", "7", "8", "9"}

IsDigit(c) == c \in Digits

\* as MatchesLostPlus, with the offset written \d{2}:\d{2} in the pattern
MatchesLostPlusColonForm(s) ==
  LET n == Len(s) IN
    /\ n >= 10
    /\ s[n - 9] = "."
    /\ \A i \in (n - 8)..(n - 6) : IsDigit(s[i])
    /\ s[n - 5] = " "
    /\ IsDigit(s[n - 4]) /\ IsDigit(s[n - 3])
    /\ s[n - 2] = ":"
    /\ IsDigit(s[n - 1]) /\ IsDigit(s[n])

\* /(\.\d{3}) (\d{4})$/ matches
MatchesLostPlus(s) ==
  LET n == Len(s) IN
    /\ n >= 9
    /\ s[n - 8] = "."
    /\ \A i \in (n - 7)..(n - 5) : IsDigit(s[i])
    /\ s[n - 4] = " "
    /\ \A i \in (n - 3)..n : IsDigit(s[i])

\* as MatchesColonOffset, with \+ for [+-] in the pattern
MatchesColonOffsetPlusOnly(s) ==
  LET n == Len(s) IN
    /\ n >= 6
    /\ s[n - 5] = "+"
    /\ IsDigit(s[n - 4]) /\ IsDigit(s[n - 3])
    /\ s[n - 2] = ":"
    /\ IsDigit(s[n - 1]) /\ IsDigit(s[n])

\* /([+-]\d{2}):(\d{2})$/ matches
MatchesColonOffset(s) ==
  LET n == Len(s) IN
    /\ n >= 6
    /\ s[n - 5] \in {"+", "-"}
    /\ IsDigit(s[n - 4]) /\ IsDigit(s[n - 3])
    /\ s[n - 2] = ":"
    /\ IsDigit(s[n - 1]) /\ IsDigit(s[n])

\* input.endsWith("Z")
EndsWithZ(s) == Len(s) >= 1 /\ s[Len(s)] = "Z"

\* as normalizeToastDate, with input.replace("Z", "+0000") for the Z rule: the
\* first Z is replaced, not the last
normalizeFirstZ(input) ==
  LET firstZ == CHOOSE i \in 1..Len(input) :
                  input[i] = "Z" /\ \A j \in 1..(i - 1) : input[j] # "Z"
  IN IF EndsWithZ(input)
       THEN SubSeq(input, 1, firstZ - 1) \o <<"+", "0", "0", "0", "0">>
              \o SubSeq(input, firstZ + 1, Len(input))
       ELSE input

\* as normalizeToastDate, with "+00:00" for "+0000" in the Z rule
normalizeZWithColon(input) ==
  LET n0 == Len(input)
      s1 == IF MatchesLostPlus(input)
              THEN [i \in 1..n0 |-> IF i = n0 - 4 THEN "+" ELSE input[i]]
              ELSE input
      n == Len(s1)
  IN IF EndsWithZ(s1)
       THEN SubSeq(s1, 1, n - 1) \o <<"+", "0", "0", ":", "0", "0">>
     ELSE IF MatchesColonOffset(s1)
       THEN SubSeq(s1, 1, n - 3) \o SubSeq(s1, n - 1, n)
     ELSE s1

normalizeToastDate(input) ==
  LET n0 == Len(input)
      s1 == IF MatchesLostPlus(input)
              THEN [i \in 1..n0 |-> IF i = n0 - 4 THEN "+" ELSE input[i]]
              ELSE input
      n == Len(s1)
  IN IF EndsWithZ(s1)
       THEN SubSeq(s1, 1, n - 1) \o <<"+", "0", "0", "0", "0">>
     ELSE IF MatchesColonOffset(s1)
       THEN SubSeq(s1, 1, n - 3) \o SubSeq(s1, n - 1, n)
     ELSE s1

(***************************************************************************)
(* Response Shape Extractor.                                               *)
(***************************************************************************)
\* as extractOrders, with the orderIds test before the orders test
extractOrdersIdsFirst(toastJson) ==
  IF ~Truthy(toastJson) THEN <<>>
  ELSE IF IsArray(Get(toastJson, "orderIds")) THEN Get(toastJson, "orderIds").a
  ELSE IF IsArray(Get(toastJson, "orders")) THEN Get(toastJson, "orders").a
  ELSE IF IsArray(toastJson) THEN toastJson.a
  ELSE IF Truthy(Get(toastJson, "data")) /\ IsArray(Get(Get(toastJson, "data"), "orders"))
    THEN Get(Get(toastJson, "data"), "orders").a
  ELSE <<>>

extractOrders(toastJson) ==
  IF ~Truthy(toastJson) THEN <<>>
  ELSE IF IsArray(Get(toastJson, "orders")) THEN Get(toastJson, "orders").a
  ELSE IF IsArray(Get(toastJson, "orderIds")) THEN Get(toastJson, "orderIds").a
  ELSE IF IsArray(toastJson) THEN toastJson.a
  ELSE IF Truthy(Get(toastJson, "data")) /\ IsArray(Get(Get(toastJson, "data"), "orders"))
    THEN Get(Get(toastJson, "data"), "orders").a
  ELSE <<>>

\* orders.length > 0 && orders.every((x) => typeof x === "string")
containsOnlyIds(orders) ==
  Len(orders) > 0 /\ \A i \in 1..Len(orders) : TypeOf(orders[i]) = "string"

\* orders.slice(0, 10)
SampleIdsLimit == 10

\* as sampleIds, without the slice
sampleIdsUnbounded(orders) == orders

sampleIds(orders) == SubSeq(orders, 1, Min(SampleIdsLimit, Len(orders)))

\* x && typeof x === "object"
IsObjectLike(x) == Truthy(x) /\ TypeOf(x) = "object"

\* Array.isArray(x.name) ? x.name : []
ArrayField(x, name) == IF IsArray(Get(x, name)) THEN Get(x, name).a ELSE <<>>

\* the sum of a sequence of numbers
RECURSIVE SumInts(_)
SumInts(s) == IF s = <<>> THEN 0 ELSE Head(s) + SumInts(Tail(s))

(***************************************************************************)
(* totals: sumTotalsFromOrders.                                            *)
(***************************************************************************)
ZeroTotals ==
  [totalGrossSales |-> 0, totalNetSales |-> 0, totalTax |-> 0,
   orderCount |-> 0, checkCount |-> 0, capturedPaymentCount |-> 0]

\* p.paymentStatus === "CAPTURED" for an entry the payments loop does not skip
IsCapturedObject(p) == IsObjectLike(p) /\ Get(p, "paymentStatus") = Str("CAPTURED")

capturedAmount(p) == FiniteOrZero(CoerceAmount(Get(p, "amount")))

\* one pass of the checks loop body
checkTotals(check) ==
  LET payments == ArrayField(check, "payments")
      captured == SelectSeq(payments, IsCapturedObject)
  IN [totalGrossSales |-> SumInts([i \in 1..Len(captured) |-> capturedAmount(captured[i])]),
      totalNetSales |-> FiniteOrZero(CoerceAmount(Get(check, "amount"))),
      totalTax |-> FiniteOrZero(CoerceAmount(Get(check, "taxAmount"))),
      orderCount |-> 0,
      checkCount |-> 1,
      capturedPaymentCount |-> Len(captured)]

AddTotals(a, b) == [f \in DOMAIN a |-> a[f] + b[f]]

\* the fieldwise sum of a sequence of records, starting from zero
RECURSIVE SumRecords(_, _)
SumRecords(s, zero) ==
  IF s = <<>> THEN zero ELSE AddTotals(Head(s), SumRecords(Tail(s), zero))

\* one pass of the orders loop body
orderTotals(order) ==
  LET checks == SelectSeq(ArrayField(order, "checks"), IsObjectLike)
  IN AddTotals([ZeroTotals EXCEPT !.orderCount = 1],
               SumRecords([i \in 1..Len(checks) |-> checkTotals(checks[i])], ZeroTotals))

sumTotalsFromOrders(orders) ==
  LET objects == SelectSeq(orders, IsObjectLike)
  IN SumRecords([i \in 1..Len(objects) |-> orderTotals(objects[i])], ZeroTotals)

(***************************************************************************)
(* totals-by-checks: computeCheckMetrics and the per-page accumulation.    *)
(***************************************************************************)
targetBusinessDate == 20260109

\* as IsCaptured, with p?.paymentStatus !== "VOIDED" for the test
IsCapturedNotVoided(p) == Get(p, "paymentStatus") # Str("VOIDED")

\* p?.paymentStatus === "CAPTURED"
IsCaptured(p) == Get(p, "paymentStatus") = Str("CAPTURED")

computeCheckMetrics(check) ==
  LET payments == ArrayField(check, "payments")
      captured == SelectSeq(payments, IsCaptured)
  IN [grossSales |-> SumInts([i \in 1..Len(captured) |-> capturedAmount(captured[i])]),
      netSales |-> FiniteOrZero(CoerceAmount(Get(check, "amount"))),
      tax |-> FiniteOrZero(CoerceAmount(Get(check, "taxAmount"))),
      paymentCount |-> Len(payments),
      capturedPaymentCount |-> Len(captured)]

\* as matchesBusinessDate, with bd < targetBusinessDate for bd !== targetBusinessDate
matchesBusinessDateOrLater(order) ==
  LET bd == ToNumber(Get(order, "businessDate"))
  IN IsFinite(bd) /\ bd.n >= targetBusinessDate * 100

\* const bd = Number(order?.businessDate);
\* !(!Number.isFinite(bd) || bd !== targetBusinessDate)
matchesBusinessDate(order) ==
  LET bd == ToNumber(Get(order, "businessDate"))
  IN IsFinite(bd) /\ bd.n = targetBusinessDate * 100

ZeroByChecks ==
  [totalGrossSales |-> 0, totalNetSales |-> 0, totalTax |-> 0,
   checkCount |-> 0, paymentCountTotal |-> 0, capturedPaymentCountTotal |-> 0,
   totalOrdersSeen |-> 0, totalOrdersMatchedBusinessDate |-> 0,
   totalChecksEvaluated |-> 0, totalChecksIncluded |-> 0]

\* as byChecksCheck, with m.paymentCount < 0 for the filter
byChecksCheckKeepsUnpaid(check) ==
  LET m == computeCheckMetrics(check)
  IN [ZeroByChecks EXCEPT
        !.totalChecksEvaluated = 1,
        !.totalChecksIncluded = 1,
        !.totalGrossSales = m.grossSales,
        !.totalNetSales = m.netSales,
        !.totalTax = m.tax,
        !.checkCount = 1,
        !.paymentCountTotal = m.paymentCount,
        !.capturedPaymentCountTotal = m.capturedPaymentCount]

\* as byChecksCheck, with totals.checkCount += 1 placed before the filter
byChecksCheckCountsFirst(check) ==
  LET m == computeCheckMetrics(check)
  IN IF m.paymentCount <= 0
       THEN [ZeroByChecks EXCEPT !.totalChecksEvaluated = 1, !.checkCount = 1]
       ELSE [ZeroByChecks EXCEPT
               !.totalChecksEvaluated = 1,
               !.totalChecksIncluded = 1,
               !.totalGrossSales = m.grossSales,
               !.totalNetSales = m.netSales,
               !.totalTax = m.tax,
               !.checkCount = 1,
               !.paymentCountTotal = m.paymentCount,
               !.capturedPaymentCountTotal = m.capturedPaymentCount]

\* one pass of the checks loop body of totals-by-checks
byChecksCheck(check) ==
  LET m == computeCheckMetrics(check)
  IN IF m.paymentCount <= 0
       THEN [ZeroByChecks EXCEPT !.totalChecksEvaluated = 1]
       ELSE [ZeroByChecks EXCEPT
               !.totalChecksEvaluated = 1,
               !.totalChecksIncluded = 1,
               !.totalGrossSales = m.grossSales,
               !.totalNetSales = m.netSales,
               !.totalTax = m.tax,
               !.checkCount = 1,
               !.paymentCountTotal = m.paymentCount,
               !.capturedPaymentCountTotal = m.capturedPaymentCount]

\* one pass of the orderObjects loop body of totals-by-checks
byChecksOrder(order) ==
  LET checks == SelectSeq(ArrayField(order, "checks"), IsObjectLike)
  IN IF ~matchesBusinessDate(order)
       THEN [ZeroByChecks EXCEPT !.totalOrdersSeen = 1]
       ELSE AddTotals([ZeroByChecks EXCEPT !.totalOrdersSeen = 1,
                                           !.totalOrdersMatchedBusinessDate = 1],
                      SumRecords([i \in 1..Len(checks) |-> byChecksCheck(checks[i])],
                                 ZeroByChecks))

\* what one non-terminal page adds to the totals and filtering counters
byChecksPage(orders) ==
  LET orderObjects == SelectSeq(orders, IsObjectLike)
  IN SumRecords([i \in 1..Len(orderObjects) |-> byChecksOrder(orderObjects[i])],
                ZeroByChecks)

(***************************************************************************)
(* checks: computeCheckMetrics with discounts, extractCheckRowsFromOrders. *)
(***************************************************************************)
\* typeof d?.discountAmount === "number" ? ... : Number(d?.discountAmount ?? 0)
discountOf(d) == FiniteOrZero(CoerceAmount(Get(d, "discountAmount")))

\* d?.discountAmount ?? d?.amount ?? d?.appliedDiscountAmount ?? 0
rawDiscount(d) ==
  Coalesce(Get(d, "discountAmount"),
           Coalesce(Get(d, "amount"),
                    Coalesce(Get(d, "appliedDiscountAmount"), Num(0))))

sumDiscountsFromDiscountObjects(discounts) ==
  IF ~IsArray(discounts) THEN 0
  ELSE SumInts([i \in 1..Len(discounts.a) |->
                  FiniteOrZero(CoerceAmount(rawDiscount(discounts.a[i])))])

computeDiscountTotal(check) ==
  LET selections == ArrayField(check, "selections")
  IN sumDiscountsFromDiscountObjects(Get(check, "appliedDiscounts"))
       + SumInts([i \in 1..Len(selections) |->
                    sumDiscountsFromDiscountObjects(Get(selections[i], "appliedDiscounts"))])

\* discountTotal is computed and not returned
computeCheckMetricsWithDiscounts(check) ==
  LET m == computeCheckMetrics(check)
      appliedDiscounts == ArrayField(check, "appliedDiscounts")
      discountTotal == computeDiscountTotal(check)
  IN [grossSales |-> m.grossSales,
      netSales |-> m.netSales,
      tax |-> m.tax,
      discountAmount |-> SumInts([i \in 1..Len(appliedDiscounts) |-> discountOf(appliedDiscounts[i])]),
      discountCount |-> Len(appliedDiscounts),
      paymentCount |-> m.paymentCount,
      capturedPaymentCount |-> m.capturedPaymentCount]

\* the rows one matching order pushes
checkRowsOfOrder(order) ==
  LET checks == SelectSeq(ArrayField(order, "checks"), IsObjectLike)
      HasPayment(check) == computeCheckMetricsWithDiscounts(check).paymentCount > 0
      kept == SelectSeq(checks, HasPayment)
  IN [i \in 1..Len(kept) |->
        LET m == computeCheckMetricsWithDiscounts(kept[i])
        IN [businessDate |-> ToNumber(Get(order, "businessDate")),
            orderDisplayNumber |-> Coalesce(Get(order, "displayNumber"), Null),
            checkDisplayNumber |-> Coalesce(Get(kept[i], "displayNumber"), Null),
            grossSales |-> m.grossSales,
            netSales |-> m.netSales,
            tax |-> m.tax,
            discountAmount |-> m.discountAmount,
            discountCount |-> m.discountCount,
            paymentCount |-> m.paymentCount,
            capturedPaymentCount |-> m.capturedPaymentCount]]

\* the concatenation of a sequence of sequences
RECURSIVE Flatten(_)
Flatten(ss) == IF ss = <<>> THEN <<>> ELSE Head(ss) \o Flatten(Tail(ss))

\* as extractCheckRowsFromOrders, without the business-date test
extractCheckRowsFromAllOrders(orders) ==
  LET objects == SelectSeq(orders, IsObjectLike)
  IN Flatten([i \in 1..Len(objects) |-> checkRowsOfOrder(objects[i])])

extractCheckRowsFromOrders(orders) ==
  LET matching == SelectSeq(SelectSeq(orders, IsObjectLike), matchesBusinessDate)
  IN Flatten([i \in 1..Len(matching) |-> checkRowsOfOrder(matching[i])])

\* orderObjects.filter((o) => Number(o?.businessDate) === targetBusinessDate).length
matchedCount(orderObjects) == Len(SelectSeq(orderObjects, matchesBusinessDate))

(***************************************************************************)
(* bulk: extractCheckMetrics.                                              *)
(***************************************************************************)
\* the row of one entry of order.checks, whatever the entry is
bulkCheckRow(order, check) ==
  LET captured == SelectSeq(ArrayField(check, "payments"), IsCaptured)
  IN [orderGuid |-> Coalesce(Get(order, "guid"), Null),
      orderDisplayNumber |-> Coalesce(Get(order, "displayNumber"), Null),
      businessDate |-> Coalesce(Get(order, "businessDate"), Null),
      checkGuid |-> Coalesce(Get(check, "guid"), Null),
      checkDisplayNumber |-> Coalesce(Get(check, "displayNumber"), Null),
      grossSales |-> SumInts([i \in 1..Len(captured) |-> capturedAmount(captured[i])]),
      netSales |-> CoerceAmount(Get(check, "amount")),
      tax |-> CoerceAmount(Get(check, "taxAmount"))]

extractCheckMetrics(data) ==
  LET orders == ArrayField(data, "orderIds")
      rowsOf(order) ==
        LET orderChecks == ArrayField(order, "checks")
        IN [j \in 1..Len(orderChecks) |-> bulkCheckRow(order, orderChecks[j])]
  IN [startDate |-> Coalesce(Get(data, "startDate"), Null),
      endDate |-> Coalesce(Get(data, "endDate"), Null),
      page |-> Coalesce(Get(data, "page"), Null),
      pageSize |-> Coalesce(Get(data, "pageSize"), Null),
      checks |-> Flatten([i \in 1..Len(orders) |-> rowsOf(orders[i])])]

(***************************************************************************)
(* Upstream data the bulk-orders call can return.                          *)
(***************************************************************************)
PayCaptured == Obj([paymentStatus |-> Str("CAPTURED"), amount |-> Num(1000)])
PayVoided == Obj([paymentStatus |-> Str("VOIDED"), amount |-> Num(500)])
PayCapturedText == Obj([paymentStatus |-> Str("CAPTURED"), amount |-> Str("2")])
\* the JSON number 1e999 parses to Infinity
PayCapturedHuge == Obj([paymentStatus |-> Str("CAPTURED"), amount |-> Infinity])

CheckPaid ==
  Obj([displayNumber |-> Str("1"), amount |-> Str("25.50"),
       payments |-> Arr(<<PayCaptured, PayVoided>>),
       appliedDiscounts |-> Arr(<<Obj([discountAmount |-> Num(150)])>>)])
CheckUnpaid ==
  Obj([amount |-> Num(300), taxAmount |-> Num(25), payments |-> Arr(<<>>)])
CheckOdd ==
  Obj([amount |-> Str("abc"), taxAmount |-> Null,
       payments |-> Arr(<<Null, PayCapturedText, PayCapturedHuge>>)])
CheckNoPayments == Obj([amount |-> Num(400), taxAmount |-> Num(40)])

\* the largest magnitude a running total holds and stays finite: the model's
\* stand-in for Number.MAX_VALUE, beyond which += gives Infinity
MaxNumber == 1000000

\* a finite amount so large that two of them overflow
CheckHuge ==
  Obj([amount |-> Num((MaxNumber \div 5) * 3), taxAmount |-> Num(0),
       payments |-> Arr(<<PayCaptured>>)])

OrderOnDate ==
  Obj([businessDate |-> Num(targetBusinessDate * 100), displayNumber |-> Num(700),
       checks |-> Arr(<<CheckPaid, CheckUnpaid>>)])
OrderOffDate ==
  Obj([businessDate |-> Num((targetBusinessDate + 1) * 100),
       checks |-> Arr(<<CheckPaid>>)])
OrderTextDate ==
  Obj([businessDate |-> Str("20260109"),
       checks |-> Arr(<<CheckOdd, Null, Str("x"), CheckNoPayments>>)])
OrderHuge ==
  Obj([businessDate |-> Num(targetBusinessDate * 100), checks |-> Arr(<<CheckHuge>>)])
OrderNoDate == Obj([displayNumber |-> Num(800), checks |-> Arr(<<CheckPaid>>)])
OrderBadDate == Obj([businessDate |-> Str("abc"), checks |-> Arr(<<CheckPaid>>)])

\* eleven bare identifiers
ManyIds == [i \in 1..11 |-> Str(CASE i = 1 -> "a" [] i = 2 -> "b" [] i = 3 -> "c"
                                  [] i = 4 -> "d" [] i = 5 -> "e" [] i = 6 -> "f"
                                  [] i = 7 -> "g" [] i = 8 -> "h" [] i = 9 -> "i"
                                  [] i = 10 -> "j" [] OTHER -> "k")]

\* A body is the response text: empty, text that is not JSON, or JSON.
EmptyBody == [text |-> "empty"]
GarbageBody == [text |-> "garbage"]
JsonBody(j) == [text |-> "json", json |-> j]

\* pages the paginating loop goes on from
DataBodies ==
  { JsonBody(Obj([orders |-> Arr(<<OrderOnDate, OrderOffDate>>)])),
    JsonBody(Obj([orderIds |-> Arr(<<OrderTextDate>>),
                  orders |-> Str("n/a"), page |-> Num(100)])),
    JsonBody(Arr(<<OrderOnDate, Str("a"), Null, OrderHuge>>)),
    JsonBody(Obj([data |-> Obj([orders |-> Arr(<<OrderOffDate, OrderNoDate, OrderBadDate>>)])])),
    JsonBody(Arr(<<Null, Num(700)>>)) }

\* pages of bare identifiers
IdsBodies ==
  { JsonBody(Obj([orderIds |-> Arr(ManyIds)])),
    JsonBody(Arr(<<Str("a"), Str("b")>>)) }

\* pages with no order array, or an empty one
EmptyBodies ==
  { EmptyBody, GarbageBody, JsonBody(Obj([orders |-> Arr(<<>>)])) }

Reply(status, body) == [status |-> status, body |-> body]

OkReplies == {Reply(200, b) : b \in DataBodies \cup IdsBodies \cup EmptyBodies}

FailureReplies ==
  {Reply(401, JsonBody(Obj([message |-> Str("unauthorized")]))),
   Reply(500, GarbageBody),
   Reply(500, EmptyBody)}

\* res.ok
IsOk(reply) == reply.status >= 200 /\ reply.status <= 299

\* rawText ? JSON.parse(rawText) : null, and { raw: rawText } when parsing throws
parseBody(body) ==
  CASE body.text = "empty" -> Null
    [] body.text = "garbage" -> Obj([raw |-> Str("garbage")])
    [] OTHER -> body.json

(***************************************************************************)
(* The request: process configuration, query parameters, endpoint.         *)
(***************************************************************************)
Endpoints == {"totals", "totals-by-checks", "checks", "bulk"}

Paginating == {"totals", "totals-by-checks", "checks"}

\* process.env.TOAST_HOSTNAME, process.env.TOAST_RESTAURANT_GUID
Environments ==
  [TOAST_HOSTNAME : {Undef, Str("toast.example")},
   TOAST_RESTAURANT_GUID : {Undef, Str("env-guid")}]

StampZ == Text(<<"1", "2", ".", "0", "0", "0", "Z">>)
StampColon == Text(<<"1", "2", ".", "0", "0", "0", "+", "0", "5", ":", "3", "0">>)

\* url.searchParams.get(name): null when the parameter is absent
Queries(ep) ==
  [restaurantGuid : {Null, Str(""), Str("query-guid")},
   startDate : {Null, Text(<<>>), StampZ},
   endDate : {Null, StampColon},
   pageSize : {Null, Str("2")},
   maxPages : IF ep \in Paginating THEN {Null, Str("0"), Str("1"), Str("2"), Str("abc")}
              ELSE {Null},
   page : IF ep = "bulk" THEN {Null, Str("3")} ELSE {Null},
   debug : {Null, Str("1")}]

VARIABLES
  endpoint,     \* which route handles the request
  env,          \* process.env
  query,        \* the request's query parameters
  pc,           \* "start", "token" (awaiting the token), "fetch" (awaiting a page), "done"
  page,         \* the loop variable of the pagination loop
  st,           \* the handler's accumulators and pagination statistics
  calls,        \* the bulk-orders calls sent upstream, in order
  tokenCalls,   \* how often getToastAccessToken was called
  inflight,     \* bulk-orders calls sent and not yet answered
  served,       \* the upstream replies received, in order
  response,     \* the handler's response, once pc = "done"
  dateIn,       \* a timestamp handed to normalizeToastDate
  dateOut,      \* what normalizeToastDate returned for it, once called
  dateAgain,    \* what normalizeToastDate returned for dateOut, once called
  checkIn,      \* a check handed to the check metric calculators
  metricsOut,   \* what each calculator returned for it, once called
  jsonIn,       \* a parsed response handed to extractOrders
  ordersOut,    \* what extractOrders returned for it, once called
  run,          \* 1 for a request, 2 when the same request is sent again
  first,        \* what the first run got from upstream and what it answered
  token,        \* what getToastAccessToken did in this run
  reqs,         \* two requests handled at once: each one's position and data
  locals        \* two requests handled at once: each one's accumulators

vars ==
  <<endpoint, env, query, pc, page, st, calls, tokenCalls, inflight, served, response,
    dateIn, dateOut, dateAgain, checkIn, metricsOut, jsonIn, ordersOut, run, first, token,
    reqs, locals>>

handlerVars ==
  <<endpoint, env, query, pc, page, st, calls, tokenCalls, inflight, served, response>>

dateVars == <<dateIn, dateOut, dateAgain>>

calcVars == <<checkIn, metricsOut, jsonIn, ordersOut>>

replayVars == <<run, first, token>>

pairVars == <<reqs, locals>>

\* what the handler of a single request leaves alone
offVars == <<dateVars, calcVars, pairVars>>

\* upstream pages that carry data, per request
MaxData == 2

NoResponse == [status |-> 0, body |-> [pending |-> TRUE]]

\* dateOut before normalizeToastDate has returned
NotCalled == <<"not called">>

Respond(status, body) == [status |-> status, body |-> body]

InitLocals(ep) ==
  [totals |-> IF ep = "totals" THEN ZeroTotals
              ELSE [totalGrossSales |-> 0, totalNetSales |-> 0, totalTax |-> 0,
                    checkCount |-> 0, paymentCountTotal |-> 0,
                    capturedPaymentCountTotal |-> 0],
   allCheckRows |-> <<>>,
   pagesFetched |-> 0,
   lastPageOrderCount |-> 0,
   idsOnlyDetected |-> FALSE,
   totalOrdersSeen |-> 0,
   totalOrdersMatchedBusinessDate |-> 0,
   totalChecksEvaluated |-> 0,
   totalChecksIncluded |-> 0]

\* url.searchParams.get("restaurantGuid") ?? process.env.TOAST_RESTAURANT_GUID
restaurantGuid(e, q) == Coalesce(q.restaurantGuid, e.TOAST_RESTAURANT_GUID)

\* Number(url.searchParams.get("pageSize") ?? "100"), "10" in the bulk endpoint
pageSize(ep, q) ==
  ToNumber(Coalesce(q.pageSize, IF ep = "bulk" THEN Str("10") ELSE Str("100")))

\* as maxPages, with Number(...) || 50
maxPagesOrDefault(q) ==
  LET m == ToNumber(Coalesce(q.maxPages, Str("50")))
  IN IF Truthy(m) THEN m ELSE Num(5000)

\* Number(url.searchParams.get("maxPages") ?? "50")
maxPages(q) == ToNumber(Coalesce(q.maxPages, Str("50")))

\* Number(url.searchParams.get("page") ?? "1")
bulkPage(q) == ToNumber(Coalesce(q.page, Str("1")))

\* url.searchParams.get("debug") === "1"
debug(q) == q.debug = Str("1")

\* normalizeToastDate(startDateRaw), normalizeToastDate(endDateRaw)
startDate(q) ==
  IF q.startDate.k = "text" THEN Text(normalizeToastDate(q.startDate.c)) ELSE Undef

endDate(q) ==
  IF q.endDate.k = "text" THEN Text(normalizeToastDate(q.endDate.c)) ELSE Undef

\* as validate, with && for || in the date check
validateBothMissing(ep, e, q) ==
  IF ~Truthy(e.TOAST_HOSTNAME)
    THEN Respond(500, [error |-> "Missing TOAST_HOSTNAME"])
  ELSE IF ~Truthy(restaurantGuid(e, q))
    THEN Respond(500, [error |-> "Missing TOAST_RESTAURANT_GUID"])
  ELSE IF ~Truthy(q.startDate) /\ ~Truthy(q.endDate)
    THEN Respond(400, [error |-> "Missing startDate or endDate"])
  ELSE NoResponse

\* as validate, with the date check placed first
validateDatesFirst(ep, e, q) ==
  IF ~Truthy(q.startDate) \/ ~Truthy(q.endDate)
    THEN Respond(400, [error |-> "Missing startDate or endDate"])
  ELSE IF ~Truthy(e.TOAST_HOSTNAME)
    THEN Respond(500, [error |-> "Missing TOAST_HOSTNAME"])
  ELSE IF ~Truthy(restaurantGuid(e, q))
    THEN Respond(500, [error |-> "Missing TOAST_RESTAURANT_GUID"])
  ELSE NoResponse

\* the response of the checks that precede the token call, or NoResponse
validate(ep, e, q) ==
  IF ~Truthy(e.TOAST_HOSTNAME)
    THEN Respond(500, [error |-> "Missing TOAST_HOSTNAME"])
  ELSE IF ~Truthy(restaurantGuid(e, q))
    THEN Respond(500, [error |-> "Missing TOAST_RESTAURANT_GUID"])
  ELSE IF ~Truthy(q.startDate) \/ ~Truthy(q.endDate)
    THEN Respond(400, [error |-> "Missing startDate or endDate"])
  ELSE NoResponse

\* the arguments of one fetch of /orders/v2/ordersBulk
BulkCall(ep, e, q, p) ==
  [startDate |-> startDate(q), endDate |-> endDate(q),
   pageSize |-> pageSize(ep, q), page |-> p,
   restaurantGuid |-> restaurantGuid(e, q)]

\* as loopGuard, with page <= maxPages + 1
loopGuardPastCap(p, q) ==
  LET m == maxPages(q)
  IN m.k = "Infinity" \/ (IsFinite(m) /\ p * 100 <= m.n + 100)

\* page <= maxPages
loopGuard(p, q) ==
  LET m == maxPages(q)
  IN m.k = "Infinity" \/ (IsFinite(m) /\ p * 100 <= m.n)

\* the 200 response built after the loop
summary(ep, q, s) ==
  LET dates == [startDate |-> q.startDate, endDate |-> q.endDate,
                normalizedStartDate |-> startDate(q),
                normalizedEndDate |-> endDate(q)]
      pagination == [pageSize |-> pageSize(ep, q), maxPages |-> maxPages(q),
                     pagesFetched |-> s.pagesFetched,
                     lastPageOrderCount |-> s.lastPageOrderCount,
                     idsOnlyDetected |-> s.idsOnlyDetected]
      plain ==
        CASE ep = "totals" -> dates @@ s.totals
          [] ep = "totals-by-checks" ->
               dates @@ [targetBusinessDate |-> targetBusinessDate] @@ s.totals
          [] OTHER ->
               dates @@ [targetBusinessDate |-> targetBusinessDate,
                         checkCount |-> Len(s.allCheckRows),
                         checks |-> s.allCheckRows]
      extra ==
        CASE ep = "totals" -> [pagination |-> pagination]
          [] ep = "totals-by-checks" ->
               [pagination |-> pagination,
                filtering |->
                  [totalOrdersSeen |-> s.totalOrdersSeen,
                   totalOrdersMatchedBusinessDate |-> s.totalOrdersMatchedBusinessDate,
                   totalChecksEvaluated |-> s.totalChecksEvaluated,
                   totalChecksIncluded |-> s.totalChecksIncluded,
                   totalChecksFilteredOut |->
                     s.totalChecksEvaluated - s.totalChecksIncluded]]
          [] OTHER ->
               [pagination |-> pagination,
                businessDateFiltering |->
                  [totalOrdersSeen |-> s.totalOrdersSeen,
                   totalOrdersMatchedBusinessDate |-> s.totalOrdersMatchedBusinessDate,
                   totalOrdersFilteredOut |->
                     s.totalOrdersSeen - s.totalOrdersMatchedBusinessDate]]
  IN Respond(200, IF debug(q) THEN plain @@ extra ELSE plain)

\* as upstreamFailure, answering 500 whatever the upstream status
upstreamFailureAs500(ep, reply, p) ==
  Respond(500, [error |-> "Toast ordersBulk failed", status |-> reply.status,
                detail |-> parseBody(reply.body), page |-> p])

\* the response to a bulk-orders call that failed
upstreamFailure(ep, reply, p) ==
  LET base == [error |-> "Toast ordersBulk failed", status |-> reply.status,
               detail |-> parseBody(reply.body), page |-> p]
  IN Respond(reply.status,
             IF ep = "totals" THEN base
             ELSE base @@ [targetBusinessDate |-> targetBusinessDate])

\* as idsOnly, with zeroed totals spread into the body
idsOnlyWithTotals(ep, q, orders, p) ==
  Respond(200, [error |-> "ordersBulk returned only order IDs",
                normalizedStartDate |-> startDate(q),
                normalizedEndDate |-> endDate(q),
                pageSize |-> pageSize(ep, q),
                page |-> p,
                sampleIds |-> sampleIds(orders)] @@ InitLocals(ep).totals)

\* the response to a page of bare identifiers
idsOnly(ep, q, orders, p) ==
  LET base == [error |-> "ordersBulk returned only order IDs",
               normalizedStartDate |-> startDate(q),
               normalizedEndDate |-> endDate(q),
               pageSize |-> pageSize(ep, q),
               page |-> p,
               sampleIds |-> sampleIds(orders)]
  IN Respond(200,
             IF ep = "totals" THEN base
             ELSE base @@ [targetBusinessDate |-> targetBusinessDate])

\* as isEmptyPage, with orderObjects.length for orders.length
isEmptyPageNoObject(orders) == SelectSeq(orders, IsObjectLike) = <<>>

\* as isEmptyPage, with the break missing
isEmptyPageNever(orders) == FALSE

\* orders.length === 0, the break of the loop
isEmptyPage(orders) == Len(orders) = 0

\* as nextPage, without the increment
nextPageSame(p) == p

\* page++
nextPage(p) == p + 1

\* as accumulate, assigning the page's totals instead of adding them
accumulateOverwrites(ep, s, orders) ==
  IF ep = "totals"
    THEN [s EXCEPT !.totals = sumTotalsFromOrders(orders)]
    ELSE [s EXCEPT !.totals = [f \in DOMAIN s.totals |-> byChecksPage(orders)[f]]]

\* the accumulators after a page that is neither empty nor all identifiers
accumulate(ep, s, orders) ==
  CASE ep = "totals" ->
         [s EXCEPT !.totals = AddTotals(s.totals, sumTotalsFromOrders(orders))]
    [] ep = "totals-by-checks" ->
         LET d == byChecksPage(orders)
         IN [s EXCEPT
               !.totals = [f \in DOMAIN s.totals |-> s.totals[f] + d[f]],
               !.totalOrdersSeen = @ + d.totalOrdersSeen,
               !.totalOrdersMatchedBusinessDate = @ + d.totalOrdersMatchedBusinessDate,
               !.totalChecksEvaluated = @ + d.totalChecksEvaluated,
               !.totalChecksIncluded = @ + d.totalChecksIncluded]
    [] OTHER ->
         LET orderObjects == SelectSeq(orders, IsObjectLike)
         IN [s EXCEPT
               !.totalOrdersSeen = @ + Len(orderObjects),
               !.totalOrdersMatchedBusinessDate = @ + matchedCount(orderObjects),
               !.allCheckRows = @ \o extractCheckRowsFromOrders(orderObjects)]

(***************************************************************************)
(* The handlers, one action per stretch of code between two awaits.        *)
(***************************************************************************)
\* metricsOut before the calculators have returned
NoMetrics == [pending |-> TRUE]

\* ordersOut before extractOrders has returned
NoOrders == [pending |-> TRUE]

\* first before a request was sent again
NoFirst == [token |-> "none", served |-> <<>>, response |-> NoResponse]

\* no function is being called on its own
InitCalcIdle ==
  /\ dateIn = <<>>
  /\ dateOut = NotCalled
  /\ dateAgain = NotCalled
  /\ checkIn = Null
  /\ metricsOut = NoMetrics
  /\ jsonIn = Null
  /\ ordersOut = NoOrders

\* the request has not been sent before
InitFirstRun ==
  /\ run = 1
  /\ first = NoFirst
  /\ token = "none"

\* no two requests are being handled at once
InitPairIdle ==
  /\ reqs = <<>>
  /\ locals = <<>>

Init ==
  /\ endpoint \in Endpoints
  /\ env \in Environments
  /\ query \in Queries(endpoint)
  /\ pc = "start"
  /\ page = 0
  /\ st = InitLocals(endpoint)
  /\ calls = <<>>
  /\ tokenCalls = 0
  /\ inflight = 0
  /\ served = <<>>
  /\ response = NoResponse
  /\ InitCalcIdle
  /\ InitFirstRun
  /\ InitPairIdle

\* GET up to `await getToastAccessToken()`
Receive ==
  /\ pc = "start"
  /\ LET r == validate(endpoint, env, query)
     IN IF r = NoResponse
          THEN /\ pc' = "token"
               /\ tokenCalls' = tokenCalls + 1
               /\ UNCHANGED response
          ELSE /\ pc' = "done"
               /\ response' = r
               /\ UNCHANGED tokenCalls
  /\ UNCHANGED <<endpoint, env, query, page, st, calls, inflight, served, replayVars, offVars>>

\* what getToastAccessToken can do: return a token or throw
TokenOutcomes ==
  {"token", "Missing TOAST_* env vars", "Toast auth failed",
   "Toast auth response missing accessToken"}

\* the loop head at page p with accumulators s: fetch page p, or leave the loop
\* and answer
EnterLoop(p, s) ==
  /\ page' = p
  /\ st' = s
  /\ IF loopGuard(p, query)
       THEN /\ pc' = "fetch"
            /\ calls' = Append(calls, BulkCall(endpoint, env, query, Num(p * 100)))
            /\ inflight' = inflight + 1
            /\ UNCHANGED response
       ELSE /\ pc' = "done"
            /\ response' = summary(endpoint, query, s)
            /\ UNCHANGED <<calls, inflight>>

\* what the authentication server does: anything for a request, and for a
\* request sent again what it did the first time
TokenOutcomesNow == IF run = 1 THEN TokenOutcomes ELSE {first.token}

\* as declareLocals, with the accumulators left as the previous run left them
declareLocalsKept(ep) == st

\* let totals = {...: 0}; let pagesFetched = 0; ...: declared after the token
\* call, in the handler's own scope
declareLocals(ep) == InitLocals(ep)

\* getToastAccessToken settles: the handler goes on to its first fetch, or the
\* catch block answers 500
TokenReturns ==
  /\ pc = "token"
  /\ \E outcome \in TokenOutcomesNow :
       /\ token' = outcome
       /\ IF outcome # "token"
            THEN /\ pc' = "done"
                 /\ response' = Respond(500, [error |-> "Server error", message |-> outcome])
                 /\ UNCHANGED <<page, st, calls, inflight>>
          ELSE IF endpoint \in Paginating
            THEN EnterLoop(1, declareLocals(endpoint))
          ELSE /\ pc' = "fetch"
               /\ calls' = Append(calls, BulkCall(endpoint, env, query, bulkPage(query)))
               /\ inflight' = inflight + 1
               /\ UNCHANGED <<page, st, response>>
  /\ UNCHANGED <<endpoint, env, query, tokenCalls, served, run, first, offVars>>

\* the replies the upstream can give to the next call: it holds at most MaxData
\* pages of data
Replies ==
  IF Len(served) < MaxData THEN OkReplies \cup FailureReplies
  ELSE {r \in OkReplies : r.body \notin DataBodies} \cup FailureReplies

\* the replies to the next call: for a request sent again, the upstream data
\* being unchanged, the reply the first run got for this page
RepliesNow ==
  IF run = 2 /\ Len(served) < Len(first.served)
    THEN {first.served[Len(served) + 1]}
    ELSE Replies

\* one pass of the loop body after `await fetchOrdersBulkPage(...)`
PageReturns ==
  /\ pc = "fetch"
  /\ endpoint \in Paginating
  /\ \E reply \in RepliesNow :
       /\ served' = Append(served, reply)
       /\ LET orders == extractOrders(parseBody(reply.body))
              s1 == [st EXCEPT !.pagesFetched = @ + 1,
                               !.lastPageOrderCount = Len(orders)]
          IN IF ~IsOk(reply)
               THEN /\ pc' = "done"
                    /\ response' = upstreamFailure(endpoint, reply, page)
                    /\ inflight' = inflight - 1
                    /\ UNCHANGED <<page, st, calls>>
             ELSE IF containsOnlyIds(orders)
               THEN /\ pc' = "done"
                    /\ response' = idsOnly(endpoint, query, orders, page)
                    /\ st' = [s1 EXCEPT !.idsOnlyDetected = TRUE]
                    /\ inflight' = inflight - 1
                    /\ UNCHANGED <<page, calls>>
             ELSE IF isEmptyPage(orders)
               THEN /\ pc' = "done"
                    /\ response' = summary(endpoint, query, s1)
                    /\ st' = s1
                    /\ inflight' = inflight - 1
                    /\ UNCHANGED <<page, calls>>
             ELSE /\ page' = nextPage(page)
                  /\ st' = accumulate(endpoint, s1, orders)
                  /\ IF loopGuard(page', query)
                       THEN /\ pc' = "fetch"
                            /\ calls' = Append(calls,
                                 BulkCall(endpoint, env, query, Num(page' * 100)))
                            /\ inflight' = inflight
                            /\ UNCHANGED response
                       ELSE /\ pc' = "done"
                            /\ response' = summary(endpoint, query, st')
                            /\ inflight' = inflight - 1
                            /\ UNCHANGED calls
  /\ UNCHANGED <<endpoint, env, query, tokenCalls, replayVars, offVars>>

\* typeof toastJson, "array" for arrays
jsonType(j) == IF IsArray(j) THEN "array" ELSE TypeOf(j)

\* as bulkFailure, answering 502 whatever the upstream status
bulkFailureAs502(reply) ==
  Respond(502, [error |-> "Toast ordersBulk failed",
                status |-> reply.status,
                detail |-> parseBody(reply.body)])

\* the bulk handler's answer to a bulk-orders call that failed, debug off
bulkFailure(reply) ==
  Respond(reply.status, [error |-> "Toast ordersBulk failed",
                         status |-> reply.status,
                         detail |-> parseBody(reply.body)])

\* the bulk handler's answer in debug mode, whatever the upstream status
bulkDebug(q, reply) ==
  Respond(200, [normalizedStartDate |-> startDate(q),
                normalizedEndDate |-> endDate(q),
                toastStatus |-> reply.status,
                toastOk |-> IsOk(reply),
                toastJsonType |-> jsonType(parseBody(reply.body)),
                toastJson |-> parseBody(reply.body)])

\* the bulk handler's answer to the upstream reply
bulkResponse(q, reply) ==
  IF IsOk(reply) /\ reply.body.text = "empty"
    THEN Respond(502, [error |-> "Toast returned an empty response body",
                       status |-> reply.status])
  ELSE IF debug(q) THEN bulkDebug(q, reply)
  ELSE IF ~IsOk(reply) THEN bulkFailure(reply)
  ELSE Respond(200, extractCheckMetrics(parseBody(reply.body)))

\* the replies to the bulk handler's one call
BulkRepliesNow ==
  IF run = 2 /\ first.served # <<>> THEN {first.served[1]}
  ELSE OkReplies \cup FailureReplies

\* the bulk handler after `await toastRes.text()`
BulkReturns ==
  /\ pc = "fetch"
  /\ endpoint = "bulk"
  /\ \E reply \in BulkRepliesNow :
       /\ served' = Append(served, reply)
       /\ response' = bulkResponse(query, reply)
  /\ pc' = "done"
  /\ inflight' = inflight - 1
  /\ UNCHANGED <<endpoint, env, query, page, st, calls, tokenCalls, replayVars, offVars>>

Next == Receive \/ TokenReturns \/ PageReturns \/ BulkReturns

Spec == Init /\ [][Next]_vars

(***************************************************************************)
(* The same request sent a second time, the upstream answering as before.  *)
(***************************************************************************)
\* the client sends the request again once it has the answer
Again ==
  /\ pc = "done"
  /\ run = 1
  /\ run' = 2
  /\ first' = [token |-> token, served |-> served, response |-> response]
  /\ token' = "none"
  /\ pc' = "start"
  /\ page' = 0
  /\ calls' = <<>>
  /\ tokenCalls' = 0
  /\ inflight' = 0
  /\ served' = <<>>
  /\ response' = NoResponse
  /\ UNCHANGED <<endpoint, env, query, st, offVars>>

InitTwice ==
  /\ Init
  /\ env = [TOAST_HOSTNAME |-> Str("toast.example"),
            TOAST_RESTAURANT_GUID |-> Str("env-guid")]
  /\ query.restaurantGuid = Null
  /\ query.pageSize = Null
  /\ query.page = Null

NextTwice == Receive \/ TokenReturns \/ PageReturns \/ BulkReturns \/ Again

SpecTwice == InitTwice /\ [][NextTwice]_vars

(***************************************************************************)
(* Requests whose maxPages is zero, negative, no number, or one.           *)
(***************************************************************************)
CapValues == {Str("0"), Str("-1"), Str("abc"), Str("1")}

CapQueries(ep) ==
  IF ep \in Paginating
    THEN {[q EXCEPT !.maxPages = m] : q \in Queries(ep), m \in CapValues}
    ELSE Queries(ep)

InitCap ==
  /\ endpoint \in Endpoints
  /\ env \in Environments
  /\ query \in CapQueries(endpoint)
  /\ pc = "start"
  /\ page = 0
  /\ st = InitLocals(endpoint)
  /\ calls = <<>>
  /\ tokenCalls = 0
  /\ inflight = 0
  /\ served = <<>>
  /\ response = NoResponse
  /\ InitCalcIdle
  /\ InitFirstRun
  /\ InitPairIdle

SpecCap == InitCap /\ [][Next]_vars

(***************************************************************************)
(* Two requests to the same paginating route handled at once: each await   *)
(* of one lets the other run.  A request's position is reqs[i], and its    *)
(* accumulators are the locals of its own call of GET.                     *)
(***************************************************************************)
Requests == {1, 2}

\* upstream pages that carry data, per request of a pair
MaxPairData == 2

PairEnv ==
  [TOAST_HOSTNAME |-> Str("toast.example"), TOAST_RESTAURANT_GUID |-> Str("env-guid")]

PairQueries ==
  [restaurantGuid : {Null}, startDate : {StampZ}, endDate : {StampColon},
   pageSize : {Null}, maxPages : {Null, Str("1")}, page : {Null}, debug : {Str("1")}]

PairDataReplies ==
  { Reply(200, JsonBody(Obj([orders |-> Arr(<<OrderOnDate, OrderOffDate>>)]))),
    Reply(200, JsonBody(Obj([orderIds |-> Arr(<<OrderTextDate>>),
                             orders |-> Str("n/a"), page |-> Num(100)]))) }

PairEndReplies ==
  { Reply(200, JsonBody(Arr(<<Str("a"), Str("b")>>))),
    Reply(200, JsonBody(Obj([orders |-> Arr(<<>>)]))),
    Reply(401, JsonBody(Obj([message |-> Str("unauthorized")]))) }

\* as scope, with the accumulators declared at module level: one set for all
\* requests
scopeShared(i) == 1

\* whose accumulators request i works on: those its own call of GET declared
scope(i) == i

\* request i as its handler sees it: its position and its accumulators
frame(i) == reqs[i] @@ [st |-> locals[scope(i)]]

\* request i moves to f
store(i, f) ==
  /\ reqs' = [reqs EXCEPT ![i] = [x \in DOMAIN reqs[i] |-> f[x]]]
  /\ locals' = [locals EXCEPT ![scope(i)] = f.st]

\* the loop head at page p with accumulators s
loopHead(ep, e, f, p, s) ==
  IF loopGuard(p, f.query)
    THEN [f EXCEPT !.page = p, !.st = s, !.pc = "fetch",
                   !.calls = Append(@, BulkCall(ep, e, f.query, Num(p * 100)))]
    ELSE [f EXCEPT !.page = p, !.st = s, !.pc = "done",
                   !.response = summary(ep, f.query, s)]

\* one pass of the loop body after the await
afterPage(ep, e, f, reply) ==
  LET orders == extractOrders(parseBody(reply.body))
      s1 == [f.st EXCEPT !.pagesFetched = @ + 1, !.lastPageOrderCount = Len(orders)]
      g == [f EXCEPT !.served = Append(@, reply)]
  IN IF ~IsOk(reply)
       THEN [g EXCEPT !.pc = "done", !.response = upstreamFailure(ep, reply, f.page)]
     ELSE IF containsOnlyIds(orders)
       THEN [g EXCEPT !.pc = "done",
                      !.response = idsOnly(ep, f.query, orders, f.page),
                      !.st = [s1 EXCEPT !.idsOnlyDetected = TRUE]]
     ELSE IF isEmptyPage(orders)
       THEN [g EXCEPT !.pc = "done", !.response = summary(ep, f.query, s1), !.st = s1]
     ELSE loopHead(ep, e, g, nextPage(f.page), accumulate(ep, s1, orders))

InitPair ==
  /\ endpoint \in Paginating
  /\ env = PairEnv
  /\ query = [restaurantGuid |-> Null, startDate |-> Null, endDate |-> Null,
              pageSize |-> Null, maxPages |-> Null, page |-> Null, debug |-> Null]
  /\ pc = "idle"
  /\ page = 0
  /\ st = InitLocals(endpoint)
  /\ calls = <<>>
  /\ tokenCalls = 0
  /\ inflight = 0
  /\ served = <<>>
  /\ response = NoResponse
  /\ InitCalcIdle
  /\ InitFirstRun
  /\ reqs \in [Requests -> [query : PairQueries, pc : {"start"}, page : {0},
                            served : {<<>>}, calls : {<<>>}, response : {NoResponse}]]
  /\ locals = [i \in Requests |-> InitLocals(endpoint)]

pairUnchanged ==
  UNCHANGED <<handlerVars, replayVars, dateVars, calcVars>>

\* GET of request i up to `await getToastAccessToken()`
PairReceive ==
  /\ \E i \in Requests :
       /\ reqs[i].pc = "start"
       /\ LET r == validate(endpoint, env, reqs[i].query)
          IN reqs' = [reqs EXCEPT ![i] =
                        IF r = NoResponse THEN [@ EXCEPT !.pc = "token"]
                        ELSE [@ EXCEPT !.pc = "done", !.response = r]]
       /\ UNCHANGED locals
  /\ pairUnchanged

\* getToastAccessToken of request i settles
PairTokenReturns ==
  /\ \E i \in Requests :
       /\ reqs[i].pc = "token"
       /\ \E outcome \in TokenOutcomes :
            IF outcome # "token"
              THEN /\ reqs' = [reqs EXCEPT ![i] =
                                [@ EXCEPT !.pc = "done",
                                          !.response = Respond(500,
                                            [error |-> "Server error",
                                             message |-> outcome])]]
                   /\ UNCHANGED locals
              ELSE store(i, loopHead(endpoint, env, frame(i), 1, InitLocals(endpoint)))
  /\ pairUnchanged

\* the replies to the next call of request i
PairReplies(i) ==
  IF Len(reqs[i].served) < MaxPairData THEN PairDataReplies \cup PairEndReplies
  ELSE PairEndReplies

\* fetchOrdersBulkPage of request i settles
PairPageReturns ==
  /\ \E i \in Requests :
       /\ reqs[i].pc = "fetch"
       /\ \E reply \in PairReplies(i) :
            store(i, afterPage(endpoint, env, frame(i), reply))
  /\ pairUnchanged

NextPair == PairReceive \/ PairTokenReturns \/ PairPageReturns

SpecPair == InitPair /\ [][NextPair]_vars

(***************************************************************************)
(* The date normaliser on its own: one call on one timestamp.              *)
(***************************************************************************)
DateAlphabet == {"Z", "0", ":", "+", "-", " ", "."}

\* the longest ending tried after each beginning
MaxTail == 4

DateTails == UNION {[1..n -> DateAlphabet] : n \in 0..MaxTail}

DateBeginnings ==
  { <<>>,
    <<"1", ".", "0", "0", "0", " ">>,
    <<".", "0", "0", "0", "+", "0">>,
    <<".", "0", "0", "0", "-", "0", "0">>,
    <<"Z", ".", "0", "0", "0", "-">> }

DateInputs == {b \o t : b \in DateBeginnings, t \in DateTails}

\* no request is being handled
InitHandlerIdle ==
  /\ endpoint = "totals"
  /\ env = [TOAST_HOSTNAME |-> Undef, TOAST_RESTAURANT_GUID |-> Undef]
  /\ query = [restaurantGuid |-> Null, startDate |-> Null, endDate |-> Null,
              pageSize |-> Null, maxPages |-> Null, page |-> Null, debug |-> Null]
  /\ pc = "idle"
  /\ page = 0
  /\ st = InitLocals("totals")
  /\ calls = <<>>
  /\ tokenCalls = 0
  /\ inflight = 0
  /\ served = <<>>
  /\ response = NoResponse
  /\ InitFirstRun
  /\ InitPairIdle

InitDate ==
  /\ dateIn \in DateInputs
  /\ dateOut = NotCalled
  /\ dateAgain = NotCalled
  /\ checkIn = Null
  /\ metricsOut = NoMetrics
  /\ jsonIn = Null
  /\ ordersOut = NoOrders
  /\ InitHandlerIdle

Normalize ==
  /\ dateOut = NotCalled
  /\ pc = "idle"
  /\ dateOut' = normalizeToastDate(dateIn)
  /\ UNCHANGED <<dateIn, dateAgain, handlerVars, calcVars, replayVars, pairVars>>

NextDate == Normalize

SpecDate == InitDate /\ [][NextDate]_vars

\* normalizeToastDate called on what it returned
NormalizeAgain ==
  /\ dateOut # NotCalled
  /\ dateAgain = NotCalled
  /\ pc = "idle"
  /\ dateAgain' = normalizeToastDate(dateOut)
  /\ UNCHANGED <<dateIn, dateOut, handlerVars, calcVars, replayVars, pairVars>>

NextDateTwice == Normalize \/ NormalizeAgain

SpecDateTwice == InitDate /\ [][NextDateTwice]_vars

(***************************************************************************)
(* The check metric calculators on their own: each applied to one check.   *)
(***************************************************************************)
PaymentValues ==
  { PayCaptured, PayVoided, PayCapturedText, PayCapturedHuge, Null, Str("x"),
    Obj([paymentStatus |-> Str("CAPTURED")]),
    Obj([paymentStatus |-> Str("captured"), amount |-> Num(700)]) }

\* the longest payments list tried
MaxPayments == 2

PaymentLists == UNION {[1..n -> PaymentValues] : n \in 0..MaxPayments}

\* a field of an object: absent when the value is undefined
Field(name, value) ==
  IF value = Undef THEN [x \in {} |-> Undef] ELSE [x \in {name} |-> value]

CheckObject(amount, taxAmount, payments) ==
  Obj(Field("amount", amount) @@ Field("taxAmount", taxAmount)
        @@ Field("payments", payments) @@ [guid |-> Str("c1")])

CheckInputs ==
  { CheckObject(a, t, p) :
      a \in {Undef, Null, Num(2550), Str("25.50"), Str("abc"), Infinity},
      t \in {Undef, Num(25), Str("abc")},
      p \in {Undef, Str("n/a")} \cup {Arr(l) : l \in PaymentLists} }
    \cup {Null, Str("x"), Num(700), Arr(<<>>)}

InitCheck ==
  /\ checkIn \in CheckInputs
  /\ metricsOut = NoMetrics
  /\ dateIn = <<>>
  /\ dateOut = NotCalled
  /\ dateAgain = NotCalled
  /\ jsonIn = Null
  /\ ordersOut = NoOrders
  /\ InitHandlerIdle

\* the check as the only check of the only order of a page
PageOfCheck(check) == <<Obj([checks |-> Arr(<<check>>)])>>

ComputeMetrics ==
  /\ metricsOut = NoMetrics
  /\ pc = "idle"
  /\ metricsOut' =
       [byChecks |-> computeCheckMetrics(checkIn),
        checks |-> computeCheckMetricsWithDiscounts(checkIn),
        bulk |-> extractCheckMetrics(Obj([orderIds |-> Arr(PageOfCheck(checkIn))])).checks[1],
        totals |-> sumTotalsFromOrders(PageOfCheck(checkIn))]
  /\ UNCHANGED <<checkIn, dateVars, jsonIn, ordersOut, handlerVars, replayVars, pairVars>>

NextCheck == ComputeMetrics

SpecCheck == InitCheck /\ [][NextCheck]_vars

(***************************************************************************)
(* The calculator of the checks endpoint on checks that carry discounts.   *)
(***************************************************************************)
DiscountValues ==
  { Obj(Field("discountAmount", a) @@ Field("amount", b)
          @@ Field("appliedDiscountAmount", c)) :
      a \in {Undef, Null, Num(100), Str("2.5"), Str("abc")},
      b \in {Undef, Num(200)},
      c \in {Undef, Num(300)} }
    \cup {Null, Str("x")}

\* the longest appliedDiscounts list tried
MaxDiscounts == 2

DiscountLists == UNION {[1..n -> DiscountValues] : n \in 0..MaxDiscounts}

SelectionLists ==
  { Undef,
    Arr(<<Obj([appliedDiscounts |-> Arr(<<Obj([discountAmount |-> Num(50)])>>)]), Null>>) }

DiscountInputs ==
  { Obj(Field("appliedDiscounts", a) @@ Field("selections", sel)
          @@ [amount |-> Num(2550), payments |-> Arr(<<PayCaptured>>)]) :
      a \in {Undef, Str("n/a")} \cup {Arr(l) : l \in DiscountLists},
      sel \in SelectionLists }

InitDiscount ==
  /\ checkIn \in DiscountInputs
  /\ metricsOut = NoMetrics
  /\ dateIn = <<>>
  /\ dateOut = NotCalled
  /\ dateAgain = NotCalled
  /\ jsonIn = Null
  /\ ordersOut = NoOrders
  /\ InitHandlerIdle

SpecDiscount == InitDiscount /\ [][NextCheck]_vars

(***************************************************************************)
(* extractOrders on its own: one call on one parsed response.              *)
(***************************************************************************)
JsonInputs ==
  { Obj(Field("orders", o) @@ Field("orderIds", i) @@ Field("data", d)
          @@ [page |-> Num(100)]) :
      o \in {Undef, Null, Str("n/a"), Arr(<<>>), Arr(<<OrderOnDate>>)},
      i \in {Undef, Num(700), Arr(<<>>), Arr(<<Str("a"), Str("b")>>)},
      d \in {Undef, Null, Str("x"), Obj([orders |-> Str("n/a")]),
             Obj([orders |-> Arr(<<OrderOffDate>>)])} }
    \cup { Undef, Null, Arr(<<>>), Arr(<<OrderTextDate, Str("a")>>), Str(""), Str("abc"),
           Num(0), Num(100), Bool(FALSE), Bool(TRUE) }

InitExtract ==
  /\ jsonIn \in JsonInputs
  /\ ordersOut = NoOrders
  /\ dateIn = <<>>
  /\ dateOut = NotCalled
  /\ dateAgain = NotCalled
  /\ checkIn = Null
  /\ metricsOut = NoMetrics
  /\ InitHandlerIdle

Extract ==
  /\ ordersOut = NoOrders
  /\ pc = "idle"
  /\ ordersOut' = [orders |-> extractOrders(jsonIn)]
  /\ UNCHANGED <<jsonIn, dateVars, checkIn, metricsOut, handlerVars, replayVars, pairVars>>

NextExtract == Extract

SpecExtract == InitExtract /\ [][NextExtract]_vars

(***************************************************************************)
(* One upstream page of full order records, in each shape it can arrive    *)
(* in, read by the totals endpoint and by the bulk endpoint.               *)
(***************************************************************************)
WrapperShapes == {"orders", "orderIds", "array", "data.orders"}

OrderRecords == {OrderOnDate, OrderOffDate, OrderNoDate, OrderHuge}

\* the longest page tried
MaxOrders == 2

OrderLists == UNION {[1..n -> OrderRecords] : n \in 0..MaxOrders}

\* the response body that carries the orders in the given shape
Wrapped(shape, orders) ==
  CASE shape = "orders" -> Obj([orders |-> Arr(orders)])
    [] shape = "orderIds" -> Obj([orderIds |-> Arr(orders)])
    [] shape = "array" -> Arr(orders)
    [] OTHER -> Obj([data |-> Obj([orders |-> Arr(orders)])])

PageInputs == {Wrapped(shape, l) : shape \in WrapperShapes, l \in OrderLists}

InitShapes ==
  /\ jsonIn \in PageInputs
  /\ ordersOut = NoOrders
  /\ dateIn = <<>>
  /\ dateOut = NotCalled
  /\ dateAgain = NotCalled
  /\ checkIn = Null
  /\ metricsOut = NoMetrics
  /\ InitHandlerIdle

\* totals: sumTotalsFromOrders(extractOrders(json)); bulk: extractCheckMetrics(toastJson)
ReadPage ==
  /\ ordersOut = NoOrders
  /\ pc = "idle"
  /\ ordersOut' = [orders |-> extractOrders(jsonIn),
                   totals |-> sumTotalsFromOrders(extractOrders(jsonIn)),
                   rows |-> extractCheckMetrics(jsonIn).checks]
  /\ UNCHANGED <<jsonIn, dateVars, checkIn, metricsOut, handlerVars, replayVars, pairVars>>

NextShapes == ReadPage

SpecShapes == InitShapes /\ [][NextShapes]_vars

(***************************************************************************)
(* Vocabulary of the properties.                                           *)
(***************************************************************************)
\* the array the handler extracts from a reply
OrdersOf(reply) == extractOrders(parseBody(reply.body))

\* a successful reply whose extracted array is empty
IsEmptyReply(reply) == IsOk(reply) /\ Len(OrdersOf(reply)) = 0

\* a successful reply whose extracted array is non-empty and all strings
IsIdsReply(reply) ==
  /\ IsOk(reply)
  /\ Len(OrdersOf(reply)) > 0
  /\ \A i \in 1..Len(OrdersOf(reply)) : OrdersOf(reply)[i].k = "string"

\* a successful reply the loop goes on from
IsDataReply(reply) == IsOk(reply) /\ ~IsEmptyReply(reply) /\ ~IsIdsReply(reply)

\* the names under which a success response carries its results
ResultFields ==
  {"totalGrossSales", "totalNetSales", "totalTax", "orderCount", "checkCount",
   "capturedPaymentCount", "paymentCountTotal", "capturedPaymentCountTotal", "checks"}

\* the totals and counts of the totals and totals-by-checks responses
TotalsFields(ep) ==
  IF ep = "totals"
    THEN {"totalGrossSales", "totalNetSales", "totalTax", "orderCount", "checkCount",
          "capturedPaymentCount"}
    ELSE {"totalGrossSales", "totalNetSales", "totalTax", "checkCount",
          "paymentCountTotal", "capturedPaymentCountTotal"}

\* what one page contributes to field f of endpoint ep
PageContribution(ep, reply, f) ==
  IF ep = "totals" THEN sumTotalsFromOrders(OrdersOf(reply))[f]
  ELSE byChecksPage(OrdersOf(reply))[f]

\* field f summed over a sequence of pages
TotalOver(ep, replies, f) ==
  SumInts([i \in 1..Len(replies) |-> PageContribution(ep, replies[i], f)])

\* the calls sent so far ask for pages 1, 2, ... in this order
CallsAreConsecutive == \A i \in 1..Len(calls) : calls[i].page = Num(i * 100)

(***************************************************************************)
(* C1: in totals and totals-by-checks, when the array extracted from page  *)
(* N is empty, the driver stops there: page N is the last call, and the    *)
(* answer is 200 with every total and count equal to the sum over pages    *)
(* 1..N-1 (zero when N = 1).                                               *)
(***************************************************************************)
C1_EmptyPageReturnsPriorTotals ==
  endpoint \in {"totals", "totals-by-checks"} =>
    \A n \in 1..Len(served) :
      IsEmptyReply(served[n]) =>
        /\ n = Len(served)
        /\ pc = "done"
        /\ Len(calls) = n
        /\ inflight = 0
        /\ response.status = 200
        /\ \A f \in TotalsFields(endpoint) :
             response.body[f] = TotalOver(endpoint, SubSeq(served, 1, n - 1), f)

C1_Witness ==
  /\ endpoint = "totals-by-checks"
  /\ pc = "done"
  /\ Len(served) = 3
  /\ IsEmptyReply(served[3])
  /\ response.body.totalGrossSales > 0
  /\ served[1] # served[2]

(***************************************************************************)
(* C2: when the upstream call for page N fails, the paginating handlers    *)
(* abort: page N is the last call and no page was asked twice, the answer  *)
(* has the upstream status and carries the upstream body, and no total     *)
(* accumulated from pages 1..N-1 is in it.                                 *)
(***************************************************************************)
C2_UpstreamFailureAborts ==
  endpoint \in Paginating =>
    \A n \in 1..Len(served) :
      ~IsOk(served[n]) =>
        /\ n = Len(served)
        /\ pc = "done"
        /\ Len(calls) = n
        /\ inflight = 0
        /\ \A i, j \in 1..Len(calls) : i # j => calls[i].page # calls[j].page
        /\ response.status = served[n].status
        /\ response.body.detail = parseBody(served[n].body)
        /\ DOMAIN response.body \cap ResultFields = {}

C2_Witness ==
  /\ endpoint = "totals"
  /\ pc = "done"
  /\ Len(served) = 2
  /\ served[2].status = 401
  /\ st.totals.totalNetSales > 0
  /\ response.status = 401

(***************************************************************************)
(* C3 as claimed: on a page of bare identifiers the response of totals and *)
(* totals-by-checks reports every total and count as 0.                    *)
(***************************************************************************)
C3_IdsOnlyReportsZeroTotals ==
  endpoint \in {"totals", "totals-by-checks"} =>
    \A n \in 1..Len(served) :
      IsIdsReply(served[n]) =>
        /\ pc = "done"
        /\ \A f \in TotalsFields(endpoint) :
             f \in DOMAIN response.body /\ response.body[f] = 0

(***************************************************************************)
(* C3 amended: on a page N of bare identifiers the driver ends in the      *)
(* IDs-only condition and the response carries no total and no count at    *)
(* all, whatever pages 1..N-1 had accumulated.                             *)
(***************************************************************************)
C3_IdsOnlyReportsNoTotals ==
  endpoint \in {"totals", "totals-by-checks"} =>
    \A n \in 1..Len(served) :
      IsIdsReply(served[n]) =>
        /\ n = Len(served)
        /\ pc = "done"
        /\ st.idsOnlyDetected
        /\ "error" \in DOMAIN response.body
        /\ DOMAIN response.body \cap ResultFields = {}

C3_Witness ==
  /\ endpoint = "totals"
  /\ pc = "done"
  /\ Len(served) = 2
  /\ IsIdsReply(served[2])
  /\ st.totals.totalGrossSales > 0
  /\ "totalGrossSales" \notin DOMAIN response.body

(***************************************************************************)
(* C4: the IDs-only condition is answered 200 with an error field, the     *)
(* page number N it was found on and, as sampleIds, the first min(10,      *)
(* length) identifiers of that page in their order; page N is the last     *)
(* call.                                                                   *)
(***************************************************************************)
C4_IdsOnlyIs200WithSample ==
  endpoint \in Paginating =>
    \A n \in 1..Len(served) :
      IsIdsReply(served[n]) =>
        LET ids == OrdersOf(served[n])
        IN /\ n = Len(served)
           /\ pc = "done"
           /\ Len(calls) = n
           /\ inflight = 0
           /\ response.status = 200
           /\ "error" \in DOMAIN response.body
           /\ response.body.page = n
           /\ response.body.sampleIds = [j \in 1..Min(10, Len(ids)) |-> ids[j]]

C4_Witness ==
  /\ endpoint = "checks"
  /\ pc = "done"
  /\ Len(served) = 2
  /\ IsIdsReply(served[2])
  /\ Len(OrdersOf(served[2])) = 11
  /\ Len(response.body.sampleIds) = 10

(***************************************************************************)
(* C5 as claimed: in every orders endpoint, debug or not, a failed         *)
(* bulk-orders call makes the response status the upstream status.         *)
(***************************************************************************)
C5_FailureStatusForwardedAlways ==
  (pc = "done" /\ served # <<>> /\ ~IsOk(served[Len(served)])) =>
    response.status = served[Len(served)].status

(***************************************************************************)
(* C5 amended: a failed bulk-orders call makes the response status the     *)
(* upstream status in totals, totals-by-checks and checks, debug or not,   *)
(* and in bulk without debug=1; bulk with debug=1 answers 200 and reports  *)
(* the upstream status as toastStatus.                                     *)
(***************************************************************************)
C5_FailureStatusForwardedUnlessBulkDebug ==
  (pc = "done" /\ served # <<>> /\ ~IsOk(served[Len(served)])) =>
    IF endpoint = "bulk" /\ query.debug = Str("1")
      THEN /\ response.status = 200
           /\ response.body.toastStatus = served[Len(served)].status
           /\ ~response.body.toastOk
      ELSE response.status = served[Len(served)].status

C5_Witness ==
  /\ endpoint = "bulk"
  /\ query.debug = Null
  /\ pc = "done"
  /\ served # <<>>
  /\ served[1].status = 401
  /\ response.status = 401

(***************************************************************************)
(* C6: within one request of a paginating endpoint the pages asked for are *)
(* 1, 2, ..., k in this order with k <= maxPages (50 when the parameter is *)
(* absent, page size 100 when absent); a page is asked for only once every *)
(* earlier page was answered and found to carry data, so no page is asked  *)
(* twice and at most one call is in flight.                                *)
(***************************************************************************)
C6_PagesInOrderOneAtATime ==
  endpoint \in Paginating =>
    /\ CallsAreConsecutive
    /\ inflight \in {0, 1}
    /\ Len(calls) = Len(served) + inflight
    /\ \A i \in 1..(Len(calls) - 1) : IsDataReply(served[i])
    /\ IF IsFinite(maxPages(query)) THEN Len(calls) * 100 <= maxPages(query).n
       ELSE calls = <<>>
    /\ query.maxPages = Null => Len(calls) <= 50
    /\ \A i \in 1..Len(calls) : query.pageSize = Null => calls[i].pageSize = Num(10000)

C6_Witness ==
  /\ endpoint \in Paginating
  /\ query.maxPages = Null
  /\ query.pageSize = Null
  /\ Len(calls) = 3
  /\ inflight = 1
  /\ Len(served) = 2

(***************************************************************************)
(* C7 as claimed: with pageSize = 2, a page of exactly 2 orders followed   *)
(* by a page of 0 orders makes 3 bulk-orders calls and a 200 answer.       *)
(***************************************************************************)
C7_Scenario ==
  /\ endpoint \in Paginating
  /\ query.pageSize = Str("2")
  /\ Len(served) >= 2
  /\ IsOk(served[1])
  /\ Len(OrdersOf(served[1])) = 2
  /\ \A i \in 1..2 : IsObjectLike(OrdersOf(served[1])[i])
  /\ IsEmptyReply(served[2])

C7_ThreeCalls ==
  (C7_Scenario /\ pc = "done") => (Len(calls) = 3 /\ response.status = 200)

(***************************************************************************)
(* C7 amended: with pageSize = 2, a page of exactly 2 orders followed by a *)
(* page of 0 orders makes 2 bulk-orders calls in total (the data fetch and *)
(* the confirming empty fetch), and then a 200 answer.                     *)
(***************************************************************************)
C7_TwoCalls ==
  C7_Scenario =>
    /\ pc = "done"
    /\ Len(calls) = 2
    /\ Len(served) = 2
    /\ response.status = 200

C7_Witness ==
  /\ C7_Scenario
  /\ endpoint = "totals"
  /\ pc = "done"
  /\ response.body.orderCount = 2

(***************************************************************************)
(* C8: a request without startDate or without endDate, the hostname and    *)
(* the restaurant identifier being there, is answered 400 without a token  *)
(* call and without a bulk-orders call.                                    *)
(***************************************************************************)
C8_MissingDatesIs400 ==
  ( /\ pc # "start"
    /\ Truthy(env.TOAST_HOSTNAME)
    /\ Truthy(restaurantGuid(env, query))
    /\ (~Truthy(query.startDate) \/ ~Truthy(query.endDate)) ) =>
    /\ pc = "done"
    /\ response.status = 400
    /\ tokenCalls = 0
    /\ calls = <<>>

C8_Witness ==
  /\ pc = "done"
  /\ endpoint = "bulk"
  /\ Truthy(query.startDate)
  /\ query.endDate = Null
  /\ response.status = 400

(***************************************************************************)
(* C9 as claimed: restaurantGuid is optional.  Without a usable query      *)
(* value the configured default is used; the 500 for a missing restaurant  *)
(* identifier comes only when there is neither a query value nor a         *)
(* default; a missing hostname gives 500; neither 500 makes a call.        *)
(***************************************************************************)
C9_DefaultRestaurantGuidIsUsed ==
  pc # "start" =>
    LET hostOk == Truthy(env.TOAST_HOSTNAME)
        usableQuery == Truthy(query.restaurantGuid)
        hasDefault == Truthy(env.TOAST_RESTAURANT_GUID)
        missingGuid == /\ pc = "done"
                       /\ response.status = 500
                       /\ response.body.error = "Missing TOAST_RESTAURANT_GUID"
    IN /\ ~hostOk => (pc = "done" /\ response.status = 500
                      /\ tokenCalls = 0 /\ calls = <<>>)
       /\ missingGuid => (~usableQuery /\ ~hasDefault /\ tokenCalls = 0 /\ calls = <<>>)
       /\ (hostOk /\ ~usableQuery /\ hasDefault) =>
            /\ ~missingGuid
            /\ \A i \in 1..Len(calls) :
                 calls[i].restaurantGuid = env.TOAST_RESTAURANT_GUID

(***************************************************************************)
(* C10: for every input ending in Z, normalizeToastDate returns the input  *)
(* with that last Z replaced by +0000 and every other character kept.      *)
(***************************************************************************)
C10_FinalZBecomesPlus0000 ==
  (dateOut # NotCalled /\ dateIn # <<>> /\ dateIn[Len(dateIn)] = "Z") =>
    dateOut = [i \in 1..(Len(dateIn) + 4) |->
                 IF i < Len(dateIn) THEN dateIn[i]
                 ELSE IF i = Len(dateIn) THEN "+" ELSE "0"]

C10_Witness ==
  /\ dateOut # NotCalled
  /\ dateIn = <<".", "0", "0", "0", "+", "0", "0", ":", "Z", "Z">>
  /\ Len(dateOut) = 14

(***************************************************************************)
(* C11: for every input that ends in three millisecond digits and a signed *)
(* offset +HH:MM or -HH:MM, normalizeToastDate returns the input without   *)
(* the colon of the offset and with every other character kept.            *)
(***************************************************************************)
EndsInColonOffsetAfterMillis(s) ==
  LET n == Len(s) IN
    /\ n >= 10
    /\ s[n - 9] = "."
    /\ \A i \in (n - 8)..(n - 6) : s[i] \in Digits
    /\ s[n - 5] \in {"+", "-"}
    /\ s[n - 4] \in Digits /\ s[n - 3] \in Digits
    /\ s[n - 2] = ":"
    /\ s[n - 1] \in Digits /\ s[n] \in Digits

C11_ColonOffsetLosesItsColon ==
  (dateOut # NotCalled /\ EndsInColonOffsetAfterMillis(dateIn)) =>
    dateOut = [i \in 1..(Len(dateIn) - 1) |->
                 IF i < Len(dateIn) - 2 THEN dateIn[i] ELSE dateIn[i + 1]]

C11_Witness ==
  /\ dateOut # NotCalled
  /\ dateIn = <<".", "0", "0", "0", "-", "0", "0", ":", "0", "0">>
  /\ dateOut = <<".", "0", "0", "0", "-", "0", "0", "0", "0">>

(***************************************************************************)
(* C12: for every input that ends in three millisecond digits, one space   *)
(* and four digits, normalizeToastDate returns the input with that space   *)
(* replaced by + and every other character kept; neither the Z rule nor    *)
(* the colon rule changes the repaired string.                             *)
(***************************************************************************)
EndsInMillisSpaceOffset(s) ==
  LET n == Len(s) IN
    /\ n >= 9
    /\ s[n - 8] = "."
    /\ \A i \in (n - 7)..(n - 5) : s[i] \in Digits
    /\ s[n - 4] = " "
    /\ \A i \in (n - 3)..n : s[i] \in Digits

C12_LostPlusIsRestored ==
  (dateOut # NotCalled /\ EndsInMillisSpaceOffset(dateIn)) =>
    dateOut = [i \in 1..Len(dateIn) |->
                 IF i = Len(dateIn) - 4 THEN "+" ELSE dateIn[i]]

C12_Witness ==
  /\ dateOut # NotCalled
  /\ dateIn = <<"1", ".", "0", "0", "0", " ", "0", "0", "0", "0">>
  /\ dateOut = <<"1", ".", "0", "0", "0", "+", "0", "0", "0", "0">>

(***************************************************************************)
(* Vocabulary of the filters.                                              *)
(***************************************************************************)
\* the order's businessDate denotes the target business date
HasTargetDate(order) ==
  Get(order, "businessDate") \in {Num(targetBusinessDate * 100), Str("20260109")}

\* the check has a payments list with at least one entry
HasPayments(check) ==
  IsArray(Get(check, "payments")) /\ Len(Get(check, "payments").a) > 0

\* the order objects of the pages the loop has gone on from, in order
OrdersAccumulated ==
  LET pages == SelectSeq(served, IsDataReply)
  IN Flatten([i \in 1..Len(pages) |-> SelectSeq(OrdersOf(pages[i]), IsObjectLike)])

\* the check objects of a sequence of orders, in order
ChecksOfOrders(os) ==
  Flatten([i \in 1..Len(os) |->
             SelectSeq(ArrayField(os[i], "checks"), IsObjectLike)])

\* every reply so far was a page of data or an empty page
OnlyDataSoFar ==
  /\ served # <<>>
  /\ \A i \in 1..Len(served) : IsDataReply(served[i]) \/ IsEmptyReply(served[i])

(***************************************************************************)
(* C13: in totals-by-checks and checks, the totals and the rows are those  *)
(* of the orders whose businessDate is the target business date, and of no *)
(* other order: an order with another, a non-numeric or a missing          *)
(* businessDate adds nothing, and pages holding such orders never lead to  *)
(* an error response.                                                      *)
(***************************************************************************)
C13_OnlyTargetDateOrdersCount ==
  LET dated == SelectSeq(OrdersAccumulated, HasTargetDate)
      checks == ChecksOfOrders(dated)
      sums == SumRecords([i \in 1..Len(checks) |-> byChecksCheck(checks[i])],
                         ZeroByChecks)
  IN /\ endpoint = "totals-by-checks" =>
          /\ \A f \in DOMAIN st.totals : st.totals[f] = sums[f]
          /\ st.totalOrdersMatchedBusinessDate = Len(dated)
          /\ st.totalOrdersSeen = Len(OrdersAccumulated)
     /\ endpoint = "checks" =>
          /\ st.allCheckRows =
               Flatten([i \in 1..Len(dated) |-> checkRowsOfOrder(dated[i])])
          /\ st.totalOrdersMatchedBusinessDate = Len(dated)
     /\ (endpoint \in {"totals-by-checks", "checks"} /\ pc = "done" /\ OnlyDataSoFar) =>
          response.status = 200

C13_Witness ==
  /\ endpoint = "totals-by-checks"
  /\ pc = "done"
  /\ response.status = 200
  /\ Len(served) = 3
  /\ OrdersOf(served[1]) = <<OrderOffDate, OrderNoDate, OrderBadDate>>
  /\ OrdersOf(served[2]) = <<OrderOnDate, OrderOffDate>>
  /\ st.totalOrdersSeen = 5
  /\ st.totalOrdersMatchedBusinessDate = 1
  /\ response.body.checkCount = 1

(***************************************************************************)
(* C14: in totals-by-checks and checks, a check whose payments list is     *)
(* empty or missing adds nothing to totalGrossSales, totalNetSales,        *)
(* totalTax or checkCount and gives no row, and every check with at least  *)
(* one payment in an order of the target date is counted exactly once.     *)
(***************************************************************************)
C14_ChecksWithoutPaymentsAreExcluded ==
  LET dated == SelectSeq(OrdersAccumulated, HasTargetDate)
      included == SelectSeq(ChecksOfOrders(dated), HasPayments)
      m(i) == computeCheckMetrics(included[i])
  IN /\ endpoint = "totals-by-checks" =>
          /\ st.totals.checkCount = Len(included)
          /\ st.totals.totalGrossSales = SumInts([i \in 1..Len(included) |-> m(i).grossSales])
          /\ st.totals.totalNetSales = SumInts([i \in 1..Len(included) |-> m(i).netSales])
          /\ st.totals.totalTax = SumInts([i \in 1..Len(included) |-> m(i).tax])
     /\ endpoint = "checks" =>
          /\ Len(st.allCheckRows) = Len(included)
          /\ \A i \in 1..Len(included) :
               /\ st.allCheckRows[i].grossSales = m(i).grossSales
               /\ st.allCheckRows[i].netSales = m(i).netSales
               /\ st.allCheckRows[i].tax = m(i).tax
               /\ st.allCheckRows[i].paymentCount = Len(Get(included[i], "payments").a)
          /\ pc = "done" /\ "checks" \in DOMAIN response.body =>
               response.body.checkCount = Len(included)

C14_Witness ==
  /\ endpoint = "checks"
  /\ pc = "done"
  /\ Len(served) = 3
  /\ OrdersOf(served[1]) = <<OrderOnDate, OrderOffDate>>
  /\ OrdersOf(served[2]) = <<OrderTextDate>>
  /\ Len(ChecksOfOrders(SelectSeq(OrdersAccumulated, HasTargetDate))) = 4
  /\ response.body.checkCount = 2

(***************************************************************************)
(* Vocabulary of the amounts.                                              *)
(***************************************************************************)
\* the finite number a field denotes, in hundredths: a number itself, a
\* numeric string its value, and 0 when the field is missing or denotes none
AmountDenoted(x) ==
  CASE x.k = "number" -> x.n
    [] x = Str("25.50") -> 2550
    [] x = Str("2") -> 200
    [] x = Str("2.5") -> 250
    [] OTHER -> 0

\* an entry of a payments list whose paymentStatus is the string CAPTURED
IsCapturedPayment(p) ==
  p.k = "object" /\ "paymentStatus" \in DOMAIN p.o /\ p.o.paymentStatus = Str("CAPTURED")

\* the payments list of a check, empty when there is none
PaymentsOf(check) ==
  IF check.k = "object" /\ "payments" \in DOMAIN check.o /\ check.o.payments.k = "array"
    THEN check.o.payments.a
    ELSE <<>>

\* the amounts of the CAPTURED payments of a check, summed
GrossDenoted(check) ==
  LET captured == SelectSeq(PaymentsOf(check), IsCapturedPayment)
  IN SumInts([i \in 1..Len(captured) |-> AmountDenoted(Get(captured[i], "amount"))])

(***************************************************************************)
(* C15: for every check, grossSales is the sum of amount over the payments *)
(* whose paymentStatus is the string CAPTURED and over no other payment,   *)
(* capturedPaymentCount is the number of those payments and paymentCount   *)
(* the length of the payments list.                                        *)
(***************************************************************************)
C15_GrossSalesSumsCapturedPayments ==
  metricsOut # NoMetrics =>
    LET payments == PaymentsOf(checkIn)
        captured == SelectSeq(payments, IsCapturedPayment)
    IN /\ metricsOut.byChecks.grossSales = GrossDenoted(checkIn)
       /\ metricsOut.byChecks.capturedPaymentCount = Len(captured)
       /\ metricsOut.byChecks.paymentCount = Len(payments)
       /\ metricsOut.checks.grossSales = GrossDenoted(checkIn)
       /\ metricsOut.checks.capturedPaymentCount = Len(captured)
       /\ metricsOut.checks.paymentCount = Len(payments)
       /\ metricsOut.bulk.grossSales = GrossDenoted(checkIn)
       /\ metricsOut.totals.totalGrossSales = GrossDenoted(checkIn)
       /\ metricsOut.totals.capturedPaymentCount = Len(captured)

C15_Witness ==
  /\ metricsOut # NoMetrics
  /\ PaymentsOf(checkIn) = <<PayCaptured, PayVoided>>
  /\ metricsOut.byChecks.grossSales = 1000
  /\ metricsOut.byChecks.capturedPaymentCount = 1
  /\ metricsOut.byChecks.paymentCount = 2

(***************************************************************************)
(* The part of C16 that holds: each running total of totals and of         *)
(* totals-by-checks is the sum of the finite numbers the counted fields    *)
(* denote, a missing, non-numeric or non-finite field adding 0, and no     *)
(* such field makes the run fail.                                          *)
(***************************************************************************)
C16_NonFiniteAmountsAddZero ==
  LET counted ==
        IF endpoint = "totals" THEN ChecksOfOrders(OrdersAccumulated)
        ELSE SelectSeq(ChecksOfOrders(SelectSeq(OrdersAccumulated, HasTargetDate)),
                       HasPayments)
      n == Len(counted)
  IN endpoint \in {"totals", "totals-by-checks"} =>
       /\ st.totals.totalNetSales =
            SumInts([i \in 1..n |-> AmountDenoted(Get(counted[i], "amount"))])
       /\ st.totals.totalTax =
            SumInts([i \in 1..n |-> AmountDenoted(Get(counted[i], "taxAmount"))])
       /\ st.totals.totalGrossSales =
            SumInts([i \in 1..n |-> GrossDenoted(counted[i])])
       /\ (pc = "done" /\ OnlyDataSoFar) => response.status = 200

(***************************************************************************)
(* C16 as claimed: after any sequence of processed pages, every running    *)
(* total is a finite number: besides the above, no total leaves the range  *)
(* of the finite numbers.                                                  *)
(***************************************************************************)
C16_RunningTotalsAreFinite ==
  /\ C16_NonFiniteAmountsAddZero
  /\ endpoint \in {"totals", "totals-by-checks"} =>
       \A f \in {"totalGrossSales", "totalNetSales", "totalTax"} :
         st.totals[f] <= MaxNumber

(***************************************************************************)
(* C19: extractOrders returns the first array among the orders field, the  *)
(* orderIds field, the value itself and data.orders, in this order, and    *)
(* the empty array when the input is absent or none of them is an array.   *)
(***************************************************************************)
HasArrayField(j, name) ==
  j.k = "object" /\ name \in DOMAIN j.o /\ j.o[name].k = "array"

C19_FirstArrayInPriorityOrder ==
  ordersOut # NoOrders =>
    ordersOut.orders =
      IF jsonIn \in {Undef, Null} THEN <<>>
      ELSE IF HasArrayField(jsonIn, "orders") THEN jsonIn.o.orders.a
      ELSE IF HasArrayField(jsonIn, "orderIds") THEN jsonIn.o.orderIds.a
      ELSE IF jsonIn.k = "array" THEN jsonIn.a
      ELSE IF jsonIn.k = "object" /\ "data" \in DOMAIN jsonIn.o
              /\ HasArrayField(jsonIn.o.data, "orders")
        THEN jsonIn.o.data.o.orders.a
      ELSE <<>>

C19_Witness ==
  /\ ordersOut # NoOrders
  /\ HasArrayField(jsonIn, "orders")
  /\ HasArrayField(jsonIn, "orderIds")
  /\ jsonIn.o.orderIds.a = <<Str("a"), Str("b")>>
  /\ ordersOut.orders = <<OrderOnDate>>

(***************************************************************************)
(* C20 as claimed: in computeCheckMetrics of totals-by-checks and of       *)
(* checks and in the rows of the bulk endpoint, netSales and tax are 0     *)
(* when amount / taxAmount is missing or non-numeric, the string "25.50"   *)
(* gives 25.50, and a check that is absent or no object gives metrics that *)
(* are all 0.                                                              *)
(***************************************************************************)
C20_NetSalesAndTaxDefaultToZero ==
  metricsOut # NoMetrics =>
    LET amount == Get(checkIn, "amount")
        taxAmount == Get(checkIn, "taxAmount")
        absent == {Undef, Null, Str("abc")}
    IN /\ amount \in absent =>
            /\ metricsOut.byChecks.netSales = 0
            /\ metricsOut.checks.netSales = 0
            /\ metricsOut.bulk.netSales = Num(0)
       /\ taxAmount \in absent =>
            /\ metricsOut.byChecks.tax = 0
            /\ metricsOut.checks.tax = 0
            /\ metricsOut.bulk.tax = Num(0)
       /\ amount = Str("25.50") =>
            /\ metricsOut.byChecks.netSales = 2550
            /\ metricsOut.checks.netSales = 2550
            /\ metricsOut.bulk.netSales = Num(2550)
       /\ checkIn.k # "object" =>
            /\ \A f \in DOMAIN metricsOut.byChecks : metricsOut.byChecks[f] = 0
            /\ \A f \in DOMAIN metricsOut.checks : metricsOut.checks[f] = 0
            /\ metricsOut.bulk.grossSales = 0

(***************************************************************************)
(* C17: a request sent a second time, with the same parameters and the     *)
(* upstream answering each call as it did the first time, is answered as   *)
(* the first time: the same status and the same body, hence the same       *)
(* totals and counts, after the same calls; nothing of the first run is    *)
(* left in the second.                                                     *)
(***************************************************************************)
C17_SecondRunAnswersAsTheFirst ==
  (run = 2 /\ pc = "done") =>
    /\ token = first.token
    /\ served = first.served
    /\ response = first.response

C17_Witness ==
  /\ run = 2
  /\ pc = "done"
  /\ endpoint = "totals"
  /\ Len(served) = 3
  /\ IsEmptyReply(served[3])
  /\ response.status = 200
  /\ response.body.totalNetSales > 0
  /\ response.body.totalNetSales = first.response.body.totalNetSales

(***************************************************************************)
(* C18: of two requests handled at once, with their steps interleaved in   *)
(* any order, each answers with the totals, counts and pagination counters *)
(* of its own pages, as if it ran alone; its accumulators are touched by   *)
(* its own steps only.                                                     *)
(***************************************************************************)
C18_EachRequestCountsItsOwnPages ==
  \A i \in DOMAIN reqs :
    LET r == reqs[i]
        pages == SelectSeq(r.served, IsDataReply)
        rows == Flatten([k \in 1..Len(pages) |->
                           extractCheckRowsFromOrders(
                             SelectSeq(OrdersOf(pages[k]), IsObjectLike))])
    IN /\ \A k \in 1..Len(r.calls) : r.calls[k].page = Num(k * 100)
       /\ (r.pc = "fetch" /\ reqs[3 - i].pc \in {"fetch", "done"}) =>
            locals[i].pagesFetched = Len(r.served)
       /\ (r.pc = "done" /\ r.response.status = 200
              /\ "error" \notin DOMAIN r.response.body) =>
            /\ r.response.body.pagination.pagesFetched = Len(r.served)
            /\ endpoint \in {"totals", "totals-by-checks"} =>
                 \A f \in TotalsFields(endpoint) :
                   r.response.body[f] = TotalOver(endpoint, pages, f)
            /\ endpoint = "checks" =>
                 /\ r.response.body.checks = rows
                 /\ r.response.body.checkCount = Len(rows)

C18_Witness ==
  /\ reqs # <<>>
  /\ endpoint = "totals-by-checks"
  /\ reqs[1].pc = "done"
  /\ reqs[1].response.status = 200
  /\ Len(reqs[1].served) = 3
  /\ "totalNetSales" \in DOMAIN reqs[1].response.body
  /\ reqs[1].response.body.totalNetSales > 0
  /\ reqs[2].pc = "fetch"
  /\ Len(reqs[2].served) = 1
  /\ locals[2].totals.totalNetSales > 0
  /\ locals[2].totals # locals[1].totals

(***************************************************************************)
(* Vocabulary of the discounts.                                            *)
(***************************************************************************)
\* the applied-discount list of a check, empty when there is none
DiscountsOf(check) ==
  IF check.k = "object" /\ "appliedDiscounts" \in DOMAIN check.o
       /\ check.o.appliedDiscounts.k = "array"
    THEN check.o.appliedDiscounts.a
    ELSE <<>>

\* a field of d that is there and holds a value
HasField(d, name) == d.k = "object" /\ name \in DOMAIN d.o /\ d.o[name] # Null

\* the amount of a discount: that of the first of the three names it has
DiscountDenoted(d) ==
  IF HasField(d, "discountAmount") THEN AmountDenoted(d.o.discountAmount)
  ELSE IF HasField(d, "amount") THEN AmountDenoted(d.o.amount)
  ELSE IF HasField(d, "appliedDiscountAmount") THEN AmountDenoted(d.o.appliedDiscountAmount)
  ELSE 0

(***************************************************************************)
(* The part of C21 that holds: the discountAmount of a check is the sum    *)
(* over its own applied-discount list of the discountAmount field of each  *)
(* discount, a missing or non-numeric one counting as 0, and discountCount *)
(* is the length of the list; discounts of selections are not added.       *)
(***************************************************************************)
C21_DiscountAmountSumsTheNamedField ==
  metricsOut # NoMetrics =>
    LET ds == DiscountsOf(checkIn)
    IN /\ metricsOut.checks.discountAmount =
            SumInts([i \in 1..Len(ds) |-> AmountDenoted(Get(ds[i], "discountAmount"))])
       /\ metricsOut.checks.discountCount = Len(ds)

(***************************************************************************)
(* C21 as claimed: the discountAmount of a check is the sum over its own   *)
(* applied-discount list of each discount's amount, read from the first of *)
(* discountAmount, amount, appliedDiscountAmount that the discount has,    *)
(* a missing or non-numeric value counting as 0.                           *)
(***************************************************************************)
C21_DiscountAmountTriesAlternateNames ==
  metricsOut # NoMetrics =>
    LET ds == DiscountsOf(checkIn)
    IN metricsOut.checks.discountAmount =
         SumInts([i \in 1..Len(ds) |-> DiscountDenoted(ds[i])])

(***************************************************************************)
(* Vocabulary of the malformed entries.                                    *)
(***************************************************************************)
\* an entry that is a record: not null, not a string, not a number
IsRecord(x) == x.k = "object"

\* the list held by field name of x without its entries that are no records
RecordsOnly(x, name) ==
  IF x.k = "object" /\ name \in DOMAIN x.o /\ x.o[name].k = "array"
    THEN Obj([x.o EXCEPT ![name] = Arr(SelectSeq(@.a, IsRecord))])
    ELSE x

\* a check without its malformed payment entries
CheckOfRecords(check) == RecordsOnly(check, "payments")

\* the orders without the malformed orders and without their malformed checks
OrdersOfRecords(orders) ==
  LET records == SelectSeq(orders, IsRecord)
  IN [i \in 1..Len(records) |-> RecordsOnly(records[i], "checks")]

\* the same, without the malformed payment entries of the checks as well
OrdersOfRecordsOnly(orders) ==
  LET records == OrdersOfRecords(orders)
      cleaned(order) ==
        IF order.k = "object" /\ "checks" \in DOMAIN order.o /\ order.o.checks.k = "array"
          THEN Obj([order.o EXCEPT !.checks =
                      Arr([j \in 1..Len(@.a) |-> CheckOfRecords(@.a[j])])])
          ELSE order
  IN [i \in 1..Len(records) |-> cleaned(records[i])]

\* field f of the totals of endpoint ep over a list of orders
TotalOfOrders(ep, orders, f) ==
  IF ep = "totals" THEN sumTotalsFromOrders(orders)[f] ELSE byChecksPage(orders)[f]

\* the rows without the field that counts the entries of the payments list
RowsWithoutPaymentCount(rows) ==
  [i \in 1..Len(rows) |-> [f \in DOMAIN rows[i] \ {"paymentCount"} |-> rows[i][f]]]

(***************************************************************************)
(* The part of C22 that holds: in totals, totals-by-checks and checks the  *)
(* totals, counters and rows are those of the pages without their          *)
(* malformed orders and malformed checks; totalGrossSales and the count of *)
(* captured payments are also those of the pages without their malformed   *)
(* payment entries; and pages holding such entries never lead to an error. *)
(***************************************************************************)
C22_MalformedOrdersAndChecksAddNothing ==
  LET shallow == OrdersOfRecords(OrdersAccumulated)
      deep == OrdersOfRecordsOnly(OrdersAccumulated)
  IN /\ endpoint \in {"totals", "totals-by-checks"} =>
          /\ \A f \in TotalsFields(endpoint) :
               st.totals[f] = TotalOfOrders(endpoint, shallow, f)
          /\ \A f \in TotalsFields(endpoint) \cap
                      {"totalGrossSales", "capturedPaymentCount",
                       "capturedPaymentCountTotal"} :
               st.totals[f] = TotalOfOrders(endpoint, deep, f)
     /\ endpoint = "checks" =>
          /\ st.allCheckRows = extractCheckRowsFromOrders(shallow)
          /\ RowsWithoutPaymentCount(st.allCheckRows) =
               RowsWithoutPaymentCount(extractCheckRowsFromOrders(deep))
     /\ (endpoint \in Paginating /\ pc = "done" /\ OnlyDataSoFar) =>
          response.status = 200

(***************************************************************************)
(* C22 as claimed: in totals, totals-by-checks and checks an order, check  *)
(* or payment entry that is no record adds zero to every total and to      *)
(* every counter returned (orderCount, checkCount, paymentCountTotal,      *)
(* capturedPaymentCount, capturedPaymentCountTotal): they are those of the *)
(* pages without such entries, and no such entry leads to an error.        *)
(***************************************************************************)
C22_MalformedEntriesAddNothing ==
  LET deep == OrdersOfRecordsOnly(OrdersAccumulated)
  IN /\ endpoint \in {"totals", "totals-by-checks"} =>
          \A f \in TotalsFields(endpoint) :
            st.totals[f] = TotalOfOrders(endpoint, deep, f)
     /\ endpoint = "checks" =>
          RowsWithoutPaymentCount(st.allCheckRows) =
            RowsWithoutPaymentCount(extractCheckRowsFromOrders(deep))
     /\ (endpoint \in Paginating /\ pc = "done" /\ OnlyDataSoFar) =>
          response.status = 200

(***************************************************************************)
(* Vocabulary of the comparison of the endpoints.                          *)
(***************************************************************************)
\* the sums of the three amounts over the per-check rows of the bulk endpoint
SumsOfBulkRows(rows) ==
  [totalGrossSales |-> SumInts([i \in 1..Len(rows) |-> rows[i].grossSales]),
   totalNetSales |-> SumInts([i \in 1..Len(rows) |-> rows[i].netSales.n]),
   totalTax |-> SumInts([i \in 1..Len(rows) |-> rows[i].tax.n])]

\* the three amounts of a totals record
AmountsOf(totals) ==
  [f \in {"totalGrossSales", "totalNetSales", "totalTax"} |-> totals[f]]

(***************************************************************************)
(* The part of C23 that holds: the totals endpoint reads the same orders   *)
(* from a page whatever shape it arrives in, and for a page that arrives   *)
(* as {orderIds: [...]} the sums over the bulk rows equal its totals.      *)
(***************************************************************************)
C23_SameOrdersInTheShapeBulkReads ==
  ordersOut # NoOrders =>
    \A shape \in WrapperShapes : \A l \in OrderLists :
      jsonIn = Wrapped(shape, l) =>
        /\ ordersOut.orders = l
        /\ ordersOut.totals = sumTotalsFromOrders(l)
        /\ shape = "orderIds" =>
             SumsOfBulkRows(ordersOut.rows) = AmountsOf(ordersOut.totals)

(***************************************************************************)
(* C23 as claimed: for a page of full order records in any of the four     *)
(* shapes, the sums of grossSales, netSales and tax over the rows of the   *)
(* bulk endpoint equal totalGrossSales, totalNetSales and totalTax of the  *)
(* totals endpoint for that page.                                          *)
(***************************************************************************)
C23_BulkRowsSumToTheTotals ==
  ordersOut # NoOrders =>
    SumsOfBulkRows(ordersOut.rows) = AmountsOf(ordersOut.totals)

(***************************************************************************)
(* Vocabulary of the cap.                                                  *)
(***************************************************************************)
\* the cap was reached: maxPages pages were fetched and each carried data
Exhausted ==
  /\ IsFinite(maxPages(query))
  /\ Len(served) > 0
  /\ Len(served) * 100 = maxPages(query).n
  /\ \A i \in 1..Len(served) : IsDataReply(served[i])

\* the names a success response carries when debug is off
PlainFields(ep) ==
  {"startDate", "endDate", "normalizedStartDate", "normalizedEndDate"} \cup
    (CASE ep = "totals" -> TotalsFields(ep)
       [] ep = "totals-by-checks" -> TotalsFields(ep) \cup {"targetBusinessDate"}
       [] OTHER -> {"targetBusinessDate", "checkCount", "checks"})

\* the names debug = 1 adds
DebugFields(ep) ==
  CASE ep = "totals" -> {"pagination"}
    [] ep = "totals-by-checks" -> {"pagination", "filtering"}
    [] OTHER -> {"pagination", "businessDateFiltering"}

\* the rows of the checks endpoint over a sequence of pages
RowsOver(replies) ==
  Flatten([i \in 1..Len(replies) |->
             extractCheckRowsFromOrders(SelectSeq(OrdersOf(replies[i]), IsObjectLike))])

(***************************************************************************)
(* C24: in totals, totals-by-checks and checks the driver never sends more *)
(* than maxPages bulk-orders calls; when page maxPages still carried data  *)
(* the run is over with no further call, answered 200 with the totals (the *)
(* rows) of exactly pages 1..maxPages, with no error field and no field    *)
(* that tells the result is cut short; pagesFetched = maxPages and the     *)
(* non-zero lastPageOrderCount are in the response with debug = 1 only.    *)
(***************************************************************************)
C24_CapEndsTheRunWith200 ==
  endpoint \in Paginating =>
    /\ IsFinite(maxPages(query)) /\ calls # <<>> => Len(calls) * 100 <= maxPages(query).n
    /\ Exhausted =>
         /\ pc = "done"
         /\ inflight = 0
         /\ Len(calls) = Len(served)
         /\ response.status = 200
         /\ "error" \notin DOMAIN response.body
         /\ endpoint # "checks" =>
              \A f \in TotalsFields(endpoint) :
                response.body[f] = TotalOver(endpoint, served, f)
         /\ endpoint = "checks" =>
              /\ response.body.checks = RowsOver(served)
              /\ response.body.checkCount = Len(RowsOver(served))
         /\ ~debug(query) => DOMAIN response.body = PlainFields(endpoint)
         /\ debug(query) =>
              /\ DOMAIN response.body = PlainFields(endpoint) \cup DebugFields(endpoint)
              /\ response.body.pagination.pagesFetched * 100 = maxPages(query).n
              /\ response.body.pagination.lastPageOrderCount =
                   Len(OrdersOf(served[Len(served)]))
              /\ response.body.pagination.lastPageOrderCount > 0

C24_Witness ==
  /\ endpoint = "totals-by-checks"
  /\ query.maxPages = Str("2")
  /\ debug(query)
  /\ Exhausted
  /\ pc = "done"
  /\ Len(calls) = 2
  /\ response.status = 200
  /\ response.body.totalNetSales > 0
  /\ response.body.pagination.pagesFetched = 2
  /\ response.body.pagination.lastPageOrderCount = 2

(***************************************************************************)
(* Vocabulary of the loop that is never entered.                           *)
(***************************************************************************)
\* the maxPages parameter reads as zero, as a negative number or as no number
NoPageAllowed == query.maxPages \in {Str("0"), Str("-1"), Str("abc")}

(***************************************************************************)
(* C25: in totals, totals-by-checks and checks, when maxPages is 0,        *)
(* negative or not a number, no bulk-orders call is ever sent; once the    *)
(* token is acquired (one token call) the answer is 200 with every total   *)
(* and count equal to 0 and no row, and with debug = 1 pagesFetched = 0.   *)
(***************************************************************************)
C25_NoPageAllowedMeansNoCall ==
  (endpoint \in Paginating /\ NoPageAllowed) =>
    /\ calls = <<>>
    /\ inflight = 0
    /\ served = <<>>
    /\ token = "token" =>
         /\ pc = "done"
         /\ tokenCalls = 1
         /\ response.status = 200
         /\ "error" \notin DOMAIN response.body
         /\ endpoint # "checks" =>
              \A f \in TotalsFields(endpoint) : response.body[f] = 0
         /\ endpoint = "checks" =>
              /\ response.body.checks = <<>>
              /\ response.body.checkCount = 0
         /\ debug(query) =>
              /\ response.body.pagination.pagesFetched = 0
              /\ response.body.pagination.lastPageOrderCount = 0

C25_Witness ==
  /\ endpoint = "checks"
  /\ query.maxPages = Str("-1")
  /\ debug(query)
  /\ token = "token"
  /\ tokenCalls = 1
  /\ pc = "done"
  /\ calls = <<>>
  /\ response.status = 200
  /\ response.body.checkCount = 0
  /\ response.body.pagination.pagesFetched = 0

(***************************************************************************)
(* Vocabulary of the counters of totals-by-checks.                         *)
(***************************************************************************)
\* the counters of totals-by-checks as one record
CountersOf(s) ==
  [checkCount |-> s.totals.checkCount,
   paymentCountTotal |-> s.totals.paymentCountTotal,
   capturedPaymentCountTotal |-> s.totals.capturedPaymentCountTotal,
   totalOrdersSeen |-> s.totalOrdersSeen,
   totalOrdersMatchedBusinessDate |-> s.totalOrdersMatchedBusinessDate,
   totalChecksEvaluated |-> s.totalChecksEvaluated,
   totalChecksIncluded |-> s.totalChecksIncluded]

\* the relations between the counters
CountersAgree(c) ==
  /\ c.checkCount = c.totalChecksIncluded
  /\ c.totalChecksIncluded <= c.totalChecksEvaluated
  /\ c.totalChecksEvaluated - c.totalChecksIncluded >= 0
  /\ c.capturedPaymentCountTotal <= c.paymentCountTotal
  /\ c.checkCount <= c.paymentCountTotal
  /\ c.totalOrdersMatchedBusinessDate <= c.totalOrdersSeen

\* the counters after the first k of the checks processed so far
CountersAfter(k) ==
  LET dated == SelectSeq(OrdersAccumulated, HasTargetDate)
      checks == ChecksOfOrders(dated)
      sums == SumRecords([i \in 1..k |-> byChecksCheck(checks[i])], ZeroByChecks)
  IN [sums EXCEPT !.totalOrdersSeen = Len(OrdersAccumulated),
                  !.totalOrdersMatchedBusinessDate = Len(dated)]

\* the relations hold now, after each check processed so far, and in the response
CountersAgreeNow ==
  endpoint = "totals-by-checks" =>
    /\ CountersAgree(CountersOf(st))
    /\ \A k \in 0..Len(ChecksOfOrders(SelectSeq(OrdersAccumulated, HasTargetDate))) :
         CountersAgree(CountersAfter(k))
    /\ (pc = "done" /\ response.status = 200 /\ "error" \notin DOMAIN response.body) =>
         /\ response.body.capturedPaymentCountTotal <= response.body.paymentCountTotal
         /\ response.body.checkCount <= response.body.paymentCountTotal
         /\ debug(query) =>
              LET f == response.body.filtering
              IN /\ response.body.checkCount = f.totalChecksIncluded
                 /\ f.totalChecksIncluded <= f.totalChecksEvaluated
                 /\ f.totalChecksFilteredOut = f.totalChecksEvaluated - f.totalChecksIncluded
                 /\ f.totalChecksFilteredOut >= 0
                 /\ f.totalOrdersMatchedBusinessDate <= f.totalOrdersSeen

\* no counter is smaller after a step than before it
CountersGrow ==
  endpoint = "totals-by-checks" =>
    \A f \in DOMAIN CountersOf(st) : CountersOf(st')[f] >= CountersOf(st)[f]

(***************************************************************************)
(* C26: in totals-by-checks, after every processed check and in every      *)
(* success response, checkCount = totalChecksIncluded <=                   *)
(* totalChecksEvaluated, totalChecksFilteredOut = totalChecksEvaluated -   *)
(* totalChecksIncluded >= 0, capturedPaymentCountTotal <=                  *)
(* paymentCountTotal, checkCount <= paymentCountTotal and                  *)
(* totalOrdersMatchedBusinessDate <= totalOrdersSeen; and no counter       *)
(* decreases from one page to the next.                                    *)
(***************************************************************************)
C26_CountersAgreeAndGrow == [](CountersAgreeNow) /\ [][CountersGrow]_vars

C26_Witness ==
  /\ endpoint = "totals-by-checks"
  /\ debug(query)
  /\ pc = "done"
  /\ response.status = 200
  /\ Len(served) = 3
  /\ "filtering" \in DOMAIN response.body
  /\ response.body.filtering.totalChecksFilteredOut > 0
  /\ response.body.filtering.totalChecksIncluded > 1
  /\ response.body.capturedPaymentCountTotal < response.body.paymentCountTotal
  /\ response.body.filtering.totalOrdersMatchedBusinessDate
       < response.body.filtering.totalOrdersSeen

(***************************************************************************)
(* Vocabulary of the comparison of checks with totals-by-checks.           *)
(***************************************************************************)
\* the pages of data read so far
PagesRead == SelectSeq(served, IsDataReply)

\* what totals-by-checks counts over the pages read so far
ByChecksOver(f) == TotalOver("totals-by-checks", PagesRead, f)

\* field f summed over rows
SumOfRows(rows, f) == SumInts([i \in 1..Len(rows) |-> rows[i][f]])

(***************************************************************************)
(* C27: over the same pages the checks endpoint and totals-by-checks       *)
(* select the same checks: the number of rows of checks is the checkCount  *)
(* of totals-by-checks, the rows' grossSales, netSales and tax sum to its  *)
(* totalGrossSales, totalNetSales and totalTax, and both count the same    *)
(* totalOrdersSeen and totalOrdersMatchedBusinessDate, in the running      *)
(* state and in the success responses.                                     *)
(***************************************************************************)
C27_ChecksSelectsAsTotalsByChecks ==
  LET rows == RowsOver(PagesRead)
      success == pc = "done" /\ response.status = 200
                   /\ "error" \notin DOMAIN response.body
  IN /\ endpoint = "checks" =>
          /\ Len(st.allCheckRows) = ByChecksOver("checkCount")
          /\ SumOfRows(st.allCheckRows, "grossSales") = ByChecksOver("totalGrossSales")
          /\ SumOfRows(st.allCheckRows, "netSales") = ByChecksOver("totalNetSales")
          /\ SumOfRows(st.allCheckRows, "tax") = ByChecksOver("totalTax")
          /\ st.totalOrdersSeen = ByChecksOver("totalOrdersSeen")
          /\ st.totalOrdersMatchedBusinessDate =
               ByChecksOver("totalOrdersMatchedBusinessDate")
          /\ success =>
               /\ response.body.checkCount = ByChecksOver("checkCount")
               /\ SumOfRows(response.body.checks, "grossSales") =
                    ByChecksOver("totalGrossSales")
               /\ SumOfRows(response.body.checks, "netSales") =
                    ByChecksOver("totalNetSales")
               /\ SumOfRows(response.body.checks, "tax") = ByChecksOver("totalTax")
               /\ debug(query) =>
                    /\ response.body.businessDateFiltering.totalOrdersSeen =
                         ByChecksOver("totalOrdersSeen")
                    /\ response.body.businessDateFiltering.totalOrdersMatchedBusinessDate =
                         ByChecksOver("totalOrdersMatchedBusinessDate")
     /\ endpoint = "totals-by-checks" =>
          /\ st.totals.checkCount = Len(rows)
          /\ st.totals.totalGrossSales = SumOfRows(rows, "grossSales")
          /\ st.totals.totalNetSales = SumOfRows(rows, "netSales")
          /\ st.totals.totalTax = SumOfRows(rows, "tax")
          /\ success =>
               /\ response.body.checkCount = Len(rows)
               /\ response.body.totalGrossSales = SumOfRows(rows, "grossSales")
               /\ response.body.totalNetSales = SumOfRows(rows, "netSales")
               /\ response.body.totalTax = SumOfRows(rows, "tax")

C27_Witness ==
  /\ endpoint = "checks"
  /\ debug(query)
  /\ pc = "done"
  /\ response.status = 200
  /\ Len(served) = 3
  /\ Len(PagesRead) = 2
  /\ "checks" \in DOMAIN response.body
  /\ response.body.checkCount = 2
  /\ ByChecksOver("checkCount") = 2
  /\ SumOfRows(response.body.checks, "netSales") > 0
  /\ response.body.businessDateFiltering.totalOrdersSeen = 3
  /\ response.body.businessDateFiltering.totalOrdersMatchedBusinessDate = 2

(***************************************************************************)
(* Vocabulary of the normal forms.                                         *)
(***************************************************************************)
\* s ends in three millisecond digits and a signed offset of four digits
EndsInMillisAndOffset(s) ==
  LET n == Len(s) IN
    /\ n >= 9
    /\ s[n - 8] = "."
    /\ \A i \in (n - 7)..(n - 5) : s[i] \in Digits
    /\ s[n - 4] \in {"+", "-"}
    /\ \A i \in (n - 3)..n : s[i] \in Digits

\* s matches none of the three patterns of normalizeToastDate
MatchesNoPattern(s) ==
  ~MatchesLostPlus(s) /\ ~EndsWithZ(s) /\ ~MatchesColonOffset(s)

(***************************************************************************)
(* C28: normalizeToastDate applied to its own result returns that result;  *)
(* and a string that already ends in .SSS+HHMM or .SSS-HHMM, or that       *)
(* matches none of the three patterns, is returned unchanged.              *)
(***************************************************************************)
C28_NormalizeIsIdempotent ==
  /\ dateAgain # NotCalled => dateAgain = dateOut
  /\ (dateOut # NotCalled /\ (EndsInMillisAndOffset(dateIn) \/ MatchesNoPattern(dateIn))) =>
       dateOut = dateIn

C28_Witness ==
  /\ dateAgain # NotCalled
  /\ dateIn = <<".", "0", "0", "0", "+", "0", "0", ":", "0", "0">>
  /\ dateOut = <<".", "0", "0", "0", "+", "0", "0", "0", "0">>
  /\ dateAgain = dateOut

(***************************************************************************)
(* Vocabulary of the traversal.                                            *)
(***************************************************************************)
\* page i + 1 is within the cap
NextPageAllowed(i) ==
  maxPages(query).k = "number" /\ (i + 1) * 100 <= maxPages(query).n

\* the page holds entries, not all of them strings, and none of them a record
HoldsNoRecord(reply) ==
  IsDataReply(reply) /\ \A k \in 1..Len(OrdersOf(reply)) : OrdersOf(reply)[k].k # "object"

\* the page holds orders, none of them of the target business date
HoldsNoTargetDate(reply) ==
  /\ IsDataReply(reply)
  /\ \E k \in 1..Len(OrdersOf(reply)) : OrdersOf(reply)[k].k = "object"
  /\ \A k \in 1..Len(OrdersOf(reply)) : ~HasTargetDate(OrdersOf(reply)[k])

(***************************************************************************)
(* C29: in totals, totals-by-checks and checks, after a successful page    *)
(* that is non-empty and not entirely strings the driver requests the next *)
(* page unless the cap is reached, also when the page holds no record or   *)
(* no order of the target date; such a page adds what it holds, possibly   *)
(* nothing; and a run that has fetched pages ends only on an empty page,   *)
(* an all-strings page, an upstream failure or the cap.                    *)
(***************************************************************************)
C29_OnlyTerminalPagesEndTheTraversal ==
  endpoint \in Paginating =>
    /\ \A i \in 1..Len(served) :
         (IsDataReply(served[i]) /\ NextPageAllowed(i)) =>
           /\ Len(calls) >= i + 1
           /\ calls[i + 1].page = Num((i + 1) * 100)
    /\ (pc = "done" /\ served # <<>>) =>
         LET last == served[Len(served)]
         IN \/ IsEmptyReply(last)
            \/ IsIdsReply(last)
            \/ ~IsOk(last)
            \/ ~NextPageAllowed(Len(served))
    /\ endpoint # "checks" =>
         /\ \A f \in TotalsFields(endpoint) :
              st.totals[f] = TotalOver(endpoint, PagesRead, f)
         /\ \A i \in 1..Len(served) : \A f \in TotalsFields(endpoint) :
              (HoldsNoRecord(served[i])
                 \/ (endpoint = "totals-by-checks" /\ HoldsNoTargetDate(served[i]))) =>
                PageContribution(endpoint, served[i], f) = 0
    /\ endpoint = "checks" => st.allCheckRows = RowsOver(PagesRead)

C29_Witness ==
  /\ endpoint = "totals-by-checks"
  /\ pc = "done"
  /\ Len(served) = 3
  /\ Len(calls) = 3
  /\ HoldsNoRecord(served[1])
  /\ HoldsNoTargetDate(served[2])
  /\ IsEmptyReply(served[3])
  /\ response.status = 200
  /\ response.body.checkCount = 0
  /\ response.body.totalNetSales = 0

(***************************************************************************)
(* Vocabulary of the request checks.                                       *)
(***************************************************************************)
\* no hostname is configured
NoHostname == env.TOAST_HOSTNAME = Undef

\* the restaurant identifier the handler resolves is missing or empty
NoIdentifier == ~Truthy(restaurantGuid(env, query))

\* startDate or endDate is missing or empty
NoDates ==
  query.startDate \in {Null, Text(<<>>)} \/ query.endDate \in {Null, Text(<<>>)}

\* the request was answered status with the given error and nothing was called
RefusedWith(status, error) ==
  /\ pc = "done"
  /\ response.status = status
  /\ response.body.error = error
  /\ tokenCalls = 0
  /\ calls = <<>>

(***************************************************************************)
(* C30: in all four endpoints the request checks are applied in this order *)
(* and the first that fails decides the response: missing hostname (500),  *)
(* missing restaurant identifier (500), missing startDate or endDate (400),*)
(* token acquisition (500 when it fails, with no bulk-orders call), then   *)
(* the page fetches; a request that lacks configuration and parameters is  *)
(* answered 500, not 400.                                                  *)
(***************************************************************************)
C30_FirstFailingCheckDecides ==
  pc # "start" =>
    /\ NoHostname => RefusedWith(500, "Missing TOAST_HOSTNAME")
    /\ (~NoHostname /\ NoIdentifier) => RefusedWith(500, "Missing TOAST_RESTAURANT_GUID")
    /\ (~NoHostname /\ ~NoIdentifier /\ NoDates) =>
         RefusedWith(400, "Missing startDate or endDate")
    /\ ((NoHostname \/ NoIdentifier) /\ NoDates) => response.status = 500
    /\ (~NoHostname /\ ~NoIdentifier /\ ~NoDates) =>
         /\ tokenCalls = 1
         /\ pc = "token" => calls = <<>>
         /\ calls # <<>> => token = "token"
         /\ token \in TokenOutcomes \ {"token"} =>
              /\ pc = "done"
              /\ response.status = 500
              /\ response.body.error = "Server error"
              /\ calls = <<>>

C30_Witness ==
  /\ endpoint = "totals"
  /\ NoHostname
  /\ NoIdentifier
  /\ NoDates
  /\ query.startDate = Null
  /\ pc = "done"
  /\ response.status = 500
  /\ tokenCalls = 0
  /\ calls = <<>>

====
